---- MODULE Spec2Model ----
(***************************************************************************)
(* A model of the Notion-to-MDX converter: the block-children parser, the  *)
(* rich-text formatter, the Markdown and MDX block renderers, the document *)
(* assemblers to_markdown / to_mdx, and the batch converter.               *)
(*                                                                         *)
(* Python strings are TLA+ strings (\o is concatenation, Len and SubSeq    *)
(* work on them).  An optional value (x | None) is a sequence of length    *)
(* at most one: None is <<>>, a present value v is <<v>>.                  *)
(***************************************************************************)
EXTENDS Integers, Sequences, FiniteSets, TLC

\* -------------------------------------------------------------------------
\* Python values
\* -------------------------------------------------------------------------

None == <<>>

Some(v) == <<v>>

\* Python truthiness of an optional string: None and "" are falsy.
TruthyStr(opt) == opt # None /\ opt[1] # ""

\* "sep".join(parts)
RECURSIVE Join(_, _)
Join(sep, parts) ==
    IF Len(parts) = 0 THEN ""
    ELSE IF Len(parts) = 1 THEN parts[1]
    ELSE parts[1] \o sep \o Join(sep, Tail(parts))

\* "  " * indent
RECURSIVE Repeat(_, _)
Repeat(s, n) == IF n <= 0 THEN "" ELSE s \o Repeat(s, n - 1)

\* position of the first "\n" of s at or after i, or 0
RECURSIVE FindNewline(_, _)
FindNewline(s, i) ==
    IF i > Len(s) THEN 0
    ELSE IF SubSeq(s, i, i) = "\n" THEN i
    ELSE FindNewline(s, i + 1)

\* s.split("\n")
RECURSIVE SplitLines(_)
SplitLines(s) ==
    LET k == FindNewline(s, 1)
    IN  IF k = 0 THEN <<s>>
        ELSE <<SubSeq(s, 1, k - 1)>> \o SplitLines(SubSeq(s, k + 1, Len(s)))

\* number of (possibly overlapping) occurrences of tok in s
CountOccurrences(tok, s) ==
    Cardinality({i \in 1..Len(s) : /\ i + Len(tok) - 1 <= Len(s)
                                   /\ SubSeq(s, i, i + Len(tok) - 1) = tok})

\* -------------------------------------------------------------------------
\* Rich text (class Annotations, class RichText)
\* -------------------------------------------------------------------------

DEFAULT == "default"

\* Characters the TLA+ lexer does not accept inside a string literal are written
\* as their numeric character reference: BACKTICK is U+0060, the emoji are the
\* code points the source writes at pageblocks.py:681 and :684.  No text of the
\* model contains "&#", so the encoding is one-to-one.
BACKTICK == "&#96;"

PAGE_EMOJI == "&#128196;"

DATABASE_EMOJI == "&#128452;&#65039;"

Annotations(bold, italic, strikethrough, underline, code, color) ==
    [bold |-> bold, italic |-> italic, strikethrough |-> strikethrough,
     underline |-> underline, code |-> code, color |-> color]

DefaultAnnotations == Annotations(FALSE, FALSE, FALSE, FALSE, FALSE, DEFAULT)

RichText(plain_text, annotations, href) ==
    [plain_text |-> plain_text, annotations |-> annotations, href |-> href]

Plain(s) == RichText(s, DefaultAnnotations, None)

\* Mutant of FormatSpan: bold is applied before code, so the asterisks end up
\* inside the code span.
FormatSpanBoldFirst(rt) ==
    LET t0 == rt.plain_text
        t1 == IF rt.annotations.bold THEN "**" \o t0 \o "**" ELSE t0
        t2 == IF rt.annotations.code THEN BACKTICK \o t1 \o BACKTICK ELSE t1
        t3 == IF rt.annotations.italic THEN "*" \o t2 \o "*" ELSE t2
        t4 == IF rt.annotations.strikethrough THEN "~~" \o t3 \o "~~" ELSE t3
    IN  IF TruthyStr(rt.href) THEN "[" \o t4 \o "](" \o rt.href[1] \o ")" ELSE t4

\* Mutant of FormatSpan: underline is rendered, as an HTML tag.
FormatSpanUnderlined(rt) ==
    LET t0 == rt.plain_text
        t1 == IF rt.annotations.code THEN BACKTICK \o t0 \o BACKTICK ELSE t0
        t2 == IF rt.annotations.bold THEN "**" \o t1 \o "**" ELSE t1
        t3 == IF rt.annotations.italic THEN "*" \o t2 \o "*" ELSE t2
        t4 == IF rt.annotations.strikethrough THEN "~~" \o t3 \o "~~" ELSE t3
        t5 == IF rt.annotations.underline THEN "<u>" \o t4 \o "</u>" ELSE t4
    IN  IF TruthyStr(rt.href) THEN "[" \o t5 \o "](" \o rt.href[1] \o ")" ELSE t5

\* one iteration of the loop of _rich_text_to_markdown
FormatSpan(rt) ==
    LET t0 == rt.plain_text
        t1 == IF rt.annotations.code THEN BACKTICK \o t0 \o BACKTICK ELSE t0
        t2 == IF rt.annotations.bold THEN "**" \o t1 \o "**" ELSE t1
        t3 == IF rt.annotations.italic THEN "*" \o t2 \o "*" ELSE t2
        t4 == IF rt.annotations.strikethrough THEN "~~" \o t3 \o "~~" ELSE t3
    IN  IF TruthyStr(rt.href) THEN "[" \o t4 \o "](" \o rt.href[1] \o ")" ELSE t4

_rich_text_to_markdown(rich_text_list) ==
    Join("", [i \in 1..Len(rich_text_list) |-> FormatSpan(rich_text_list[i])])

_extract_plain_text(rich_text_list) ==
    Join("", [i \in 1..Len(rich_text_list) |-> rich_text_list[i].plain_text])

\* -------------------------------------------------------------------------
\* Color policy of the MDX renderer
\* -------------------------------------------------------------------------

\* Mutant of _wrap_with_color: the default color is wrapped like any other.
_wrap_with_color_always(text, color) ==
    "<Span color=\"" \o color \o "\">" \o text \o "</Span>"

_wrap_with_color(text, color) ==
    IF color = "default" \/ color = "" THEN text
    ELSE "<Span color=\"" \o color \o "\">" \o text \o "</Span>"

\* -------------------------------------------------------------------------
\* Blocks.  A block is a record with its discriminator `type` and, as in the
\* pydantic models, one payload field named after the type.
\* -------------------------------------------------------------------------

\* the tags of the discriminated union Block
BlockTypes ==
    {"paragraph", "heading_1", "heading_2", "heading_3", "bulleted_list_item",
     "numbered_list_item", "to_do", "toggle", "code", "child_page",
     "child_database", "embed", "image", "video", "file", "pdf", "audio",
     "bookmark", "callout", "quote", "equation", "divider",
     "table_of_contents", "breadcrumb", "column_list", "column",
     "link_preview", "table", "table_row", "unsupported"}

\* class RichTextBlockContent / HeadingContent
RichTextBlockContent(rich_text, color) == [rich_text |-> rich_text, color |-> color]

ToDoContent(rich_text, color, checked) ==
    [rich_text |-> rich_text, color |-> color, checked |-> checked]

CalloutContent(rich_text, icon, color) ==
    [rich_text |-> rich_text, icon |-> icon, color |-> color]

CodeContent(rich_text, language) == [rich_text |-> rich_text, language |-> language]

\* external is None or Some([url |-> u]); name is None or Some(string)
FileObject(type, external, caption, name) ==
    [type |-> type, external |-> external, caption |-> caption, name |-> name]

EmojiIcon(emoji) == [type |-> "emoji", emoji |-> emoji]

FileIcon(type, external) == [type |-> type, external |-> external]

\* Mutant of HasEmoji: no icon is taken for an emoji.
HasEmojiNever(icon) == FALSE

\* hasattr(icon, 'emoji'): only EmojiIcon declares the field
HasEmoji(icon) == "emoji" \in DOMAIN icon

\* indent_str = "  " * indent
IndentStr(indent) == Repeat("  ", indent)

\* url = "" ; if f.external: url = f.external.url
\* Mutant of ExternalUrl: a missing external reference is formatted as it is
\* (str(None)) instead of being replaced by "".
ExternalUrlUnguarded(f) == IF f.external # None THEN f.external[1].url ELSE "None"

\* url = "" ; if f.external: url = f.external.url
ExternalUrl(f) == IF f.external # None THEN f.external[1].url ELSE ""

\* Mutant of Quoted: the text is prefixed once, not line by line.
QuotedFirstLineOnly(text) == "> " \o text

\* "\n".join(f"> {line}" for line in text.split("\n"))
Quoted(text) ==
    LET lines == SplitLines(text)
    IN  Join("\n", [i \in 1..Len(lines) |-> "> " \o lines[i]])

\* "| " + " | ".join(cells) + " |\n"
TableRowLine(cells) ==
    "| " \o Join(" | ", [i \in 1..Len(cells) |-> _rich_text_to_markdown(cells[i])])
         \o " |\n"

\* num = number if number is not None else 1
Num(number) == IF number # None THEN number[1] ELSE 1

\* Mutant of paragraph_to_markdown: the newline after the text is left out.
paragraph_to_markdown_no_newline(block, indent_str) ==
    LET text == _rich_text_to_markdown(block.paragraph.rich_text)
    IN  IF text # "" THEN indent_str \o text ELSE "\n"

\* case "paragraph" of _block_to_markdown
paragraph_to_markdown(block, indent_str) ==
    LET text == _rich_text_to_markdown(block.paragraph.rich_text)
    IN  IF text # "" THEN indent_str \o text \o "\n" ELSE "\n"

\* case _ of _block_to_markdown
unmatched_to_markdown(block) == ""

_block_to_markdown(block, indent, number) ==
    LET indent_str == IndentStr(indent)
        block_type == block.type
    IN  CASE block_type = "paragraph" -> paragraph_to_markdown(block, indent_str)
          [] block_type = "heading_1" ->
               "# " \o _rich_text_to_markdown(block.heading_1.rich_text) \o "\n"
          [] block_type = "heading_2" ->
               "## " \o _rich_text_to_markdown(block.heading_2.rich_text) \o "\n"
          [] block_type = "heading_3" ->
               "### " \o _rich_text_to_markdown(block.heading_3.rich_text) \o "\n"
          [] block_type = "bulleted_list_item" ->
               indent_str \o "- "
                 \o _rich_text_to_markdown(block.bulleted_list_item.rich_text) \o "\n"
          [] block_type = "numbered_list_item" ->
               indent_str \o ToString(Num(number)) \o ". "
                 \o _rich_text_to_markdown(block.numbered_list_item.rich_text) \o "\n"
          [] block_type = "to_do" ->
               LET text == _rich_text_to_markdown(block.to_do.rich_text)
                   checkbox == IF block.to_do.checked THEN "[x]" ELSE "[ ]"
               IN  indent_str \o "- " \o checkbox \o " " \o text \o "\n"
          [] block_type = "toggle" ->
               LET text == _rich_text_to_markdown(block.toggle.rich_text)
               IN  indent_str \o "<details>\n" \o indent_str \o "<summary>" \o text
                     \o "</summary>\n" \o indent_str \o "</details>\n"
          [] block_type = "code" ->
               LET text == _extract_plain_text(block.code.rich_text)
                   lang == block.code.language
               IN  BACKTICK \o BACKTICK \o BACKTICK \o lang \o "\n" \o text \o "\n"
                     \o BACKTICK \o BACKTICK \o BACKTICK \o "\n"
          [] block_type = "quote" ->
               Quoted(_rich_text_to_markdown(block.quote.rich_text)) \o "\n"
          [] block_type = "callout" ->
               LET text == _rich_text_to_markdown(block.callout.rich_text)
                   icon == IF block.callout.icon # None /\ HasEmoji(block.callout.icon[1])
                           THEN block.callout.icon[1].emoji \o " " ELSE ""
               IN  "> " \o icon \o text \o "\n"
          [] block_type = "divider" -> "---\n"
          [] block_type = "equation" ->
               "$$\n" \o block.equation.expression \o "\n$$\n"
          [] block_type = "image" ->
               LET url == ExternalUrl(block.image)
                   caption == IF block.image.caption # <<>>
                              THEN _rich_text_to_markdown(block.image.caption)
                              ELSE "image"
               IN  "![" \o caption \o "](" \o url \o ")\n"
          [] block_type = "video" -> "[Video](" \o ExternalUrl(block.video) \o ")\n"
          [] block_type = "audio" -> "[Audio](" \o ExternalUrl(block.audio) \o ")\n"
          [] block_type = "file" ->
               LET url == ExternalUrl(block.file)
                   name == IF TruthyStr(block.file.name) THEN block.file.name[1] ELSE "file"
               IN  "[" \o name \o "](" \o url \o ")\n"
          [] block_type = "pdf" -> "[PDF](" \o ExternalUrl(block.pdf) \o ")\n"
          [] block_type = "bookmark" ->
               LET url == block.bookmark.url
                   caption == IF block.bookmark.caption # <<>>
                              THEN _rich_text_to_markdown(block.bookmark.caption)
                              ELSE url
               IN  "[" \o caption \o "](" \o url \o ")\n"
          [] block_type = "embed" -> "[Embed](" \o block.embed.url \o ")\n"
          [] block_type = "link_preview" -> "[Link](" \o block.link_preview.url \o ")\n"
          [] block_type = "child_page" ->
               PAGE_EMOJI \o " [" \o block.child_page.title \o "]()\n"
          [] block_type = "child_database" ->
               DATABASE_EMOJI \o " [" \o block.child_database.title \o "]()\n"
          [] block_type = "table_of_contents" -> "[TOC]\n"
          [] block_type = "breadcrumb" -> ""
          [] block_type \in {"column_list", "column"} -> ""
          [] block_type = "table" -> ""
          [] block_type = "table_row" -> TableRowLine(block.table_row.cells)
          [] OTHER -> unmatched_to_markdown(block)

\* Mutant of paragraph_to_mdx: the color is applied before the emptiness test.
paragraph_to_mdx_wrap_first(block, indent_str) ==
    LET text == _wrap_with_color(_rich_text_to_markdown(block.paragraph.rich_text),
                                 block.paragraph.color)
    IN  IF text = "" THEN "\n" ELSE indent_str \o text \o "\n"

\* case "paragraph" of _block_to_mdx
paragraph_to_mdx(block, indent_str) ==
    LET text == _rich_text_to_markdown(block.paragraph.rich_text)
        color == block.paragraph.color
    IN  IF text = "" THEN "\n"
        ELSE indent_str \o _wrap_with_color(text, color) \o "\n"

\* Mutant of unmatched_to_mdx: an unmatched block leaves a placeholder comment.
unmatched_to_mdx_placeholder(block) == "<!-- " \o block.type \o " -->\n"

\* case _ of _block_to_mdx
unmatched_to_mdx(block) == ""

_block_to_mdx(block, indent, number) ==
    LET indent_str == IndentStr(indent)
        block_type == block.type
    IN  CASE block_type = "paragraph" -> paragraph_to_mdx(block, indent_str)
          [] block_type = "heading_1" ->
               "# " \o _wrap_with_color(_rich_text_to_markdown(block.heading_1.rich_text),
                                         block.heading_1.color) \o "\n"
          [] block_type = "heading_2" ->
               "## " \o _wrap_with_color(_rich_text_to_markdown(block.heading_2.rich_text),
                                          block.heading_2.color) \o "\n"
          [] block_type = "heading_3" ->
               "### " \o _wrap_with_color(_rich_text_to_markdown(block.heading_3.rich_text),
                                           block.heading_3.color) \o "\n"
          [] block_type = "bulleted_list_item" ->
               indent_str \o "- "
                 \o _wrap_with_color(
                        _rich_text_to_markdown(block.bulleted_list_item.rich_text),
                        block.bulleted_list_item.color) \o "\n"
          [] block_type = "numbered_list_item" ->
               indent_str \o ToString(Num(number)) \o ". "
                 \o _wrap_with_color(
                        _rich_text_to_markdown(block.numbered_list_item.rich_text),
                        block.numbered_list_item.color) \o "\n"
          [] block_type = "to_do" ->
               LET text == _wrap_with_color(_rich_text_to_markdown(block.to_do.rich_text),
                                            block.to_do.color)
                   checkbox == IF block.to_do.checked THEN "[x]" ELSE "[ ]"
               IN  indent_str \o "- " \o checkbox \o " " \o text \o "\n"
          [] block_type = "toggle" ->
               LET text == _rich_text_to_markdown(block.toggle.rich_text)
                   color == block.toggle.color
               IN  "<Accordion title=\"" \o text \o "\" color=\"" \o color
                     \o "\">\n</Accordion>\n"
          [] block_type = "code" ->
               LET text == _extract_plain_text(block.code.rich_text)
                   lang == block.code.language
               IN  BACKTICK \o BACKTICK \o BACKTICK \o lang \o "\n" \o text \o "\n"
                     \o BACKTICK \o BACKTICK \o BACKTICK \o "\n"
          [] block_type = "quote" ->
               LET text == _rich_text_to_markdown(block.quote.rich_text)
                   color == block.quote.color
               IN  IF color # "default"
                   THEN "<Quote color=\"" \o color \o "\">" \o text \o "</Quote>\n"
                   ELSE Quoted(text) \o "\n"
          [] block_type = "callout" ->
               LET text == _rich_text_to_markdown(block.callout.rich_text)
                   color == block.callout.color
                   icon == IF block.callout.icon # None /\ HasEmoji(block.callout.icon[1])
                           THEN block.callout.icon[1].emoji ELSE ""
               IN  "<Callout icon=\"" \o icon \o "\" color=\"" \o color \o "\">\n  "
                     \o text \o "\n</Callout>\n"
          [] block_type = "divider" -> "---\n"
          [] block_type = "equation" ->
               "<Math>" \o block.equation.expression \o "</Math>\n"
          [] block_type = "image" ->
               LET url == ExternalUrl(block.image)
                   caption == IF block.image.caption # <<>>
                              THEN _rich_text_to_markdown(block.image.caption)
                              ELSE ""
               IN  IF caption # ""
                   THEN "<Image src=\"" \o url \o "\" alt=\"" \o caption \o "\" />\n"
                   ELSE "<Image src=\"" \o url \o "\" />\n"
          [] block_type = "video" ->
               "<Video src=\"" \o ExternalUrl(block.video) \o "\" />\n"
          [] block_type = "audio" ->
               "<Audio src=\"" \o ExternalUrl(block.audio) \o "\" />\n"
          [] block_type = "file" ->
               LET url == ExternalUrl(block.file)
                   name == IF TruthyStr(block.file.name) THEN block.file.name[1] ELSE "file"
               IN  "<FileDownload href=\"" \o url \o "\" name=\"" \o name \o "\" />\n"
          [] block_type = "pdf" -> "<PDF src=\"" \o ExternalUrl(block.pdf) \o "\" />\n"
          [] block_type = "bookmark" ->
               LET url == block.bookmark.url
                   caption == IF block.bookmark.caption # <<>>
                              THEN _rich_text_to_markdown(block.bookmark.caption)
                              ELSE url
               IN  "<Bookmark url=\"" \o url \o "\" title=\"" \o caption \o "\" />\n"
          [] block_type = "embed" -> "<Embed url=\"" \o block.embed.url \o "\" />\n"
          [] block_type = "link_preview" ->
               "<LinkPreview url=\"" \o block.link_preview.url \o "\" />\n"
          [] block_type = "child_page" ->
               "<ChildPage title=\"" \o block.child_page.title \o "\" />\n"
          [] block_type = "child_database" ->
               "<ChildDatabase title=\"" \o block.child_database.title \o "\" />\n"
          [] block_type = "table_of_contents" ->
               LET color == block.table_of_contents.color
               IN  IF color # "default"
                   THEN "<TableOfContents color=\"" \o color \o "\" />\n"
                   ELSE "<TableOfContents />\n"
          [] block_type = "breadcrumb" -> ""
          [] block_type \in {"column_list", "column"} -> ""
          [] block_type = "table" -> ""
          [] block_type = "table_row" -> TableRowLine(block.table_row.cells)
          [] OTHER -> unmatched_to_mdx(block)

\* -------------------------------------------------------------------------
\* The document assemblers to_markdown and to_mdx.  The locals of a call are
\* a record loc = [lines, numbered_list_counter, prev_type].
\* -------------------------------------------------------------------------

\* Mutant of to_markdown_locals: the counter starts at 1.
to_markdown_locals_counter_one ==
    [lines |-> <<>>, numbered_list_counter |-> 1, prev_type |-> None]

\* lines = [] ; numbered_list_counter = 0 ; prev_type = None
to_markdown_locals == [lines |-> <<>>, numbered_list_counter |-> 0, prev_type |-> None]

to_mdx_locals == [lines |-> <<>>, numbered_list_counter |-> 0, prev_type |-> None]

\* Mutant of to_markdown_reset: the reset on leaving a numbered list is forgotten.
to_markdown_reset_never(block_type, prev_type, numbered_list_counter) ==
    numbered_list_counter

\* if block_type != "numbered_list_item" and prev_type == "numbered_list_item":
\*     numbered_list_counter = 0
to_markdown_reset(block_type, prev_type, numbered_list_counter) ==
    IF block_type # "numbered_list_item" /\ prev_type = Some("numbered_list_item")
    THEN 0 ELSE numbered_list_counter

to_mdx_reset(block_type, prev_type, numbered_list_counter) ==
    IF block_type # "numbered_list_item" /\ prev_type = Some("numbered_list_item")
    THEN 0 ELSE numbered_list_counter

\* One iteration of `for block in self.results` of to_markdown; md is what
\* the block renderer returned.  The branch after the append (the "blank
\* line" comment) executes only pass statements.
to_markdown_body(loc, block) ==
    LET block_type == block.type
        reset == to_markdown_reset(block_type, loc.prev_type, loc.numbered_list_counter)
        counter == IF block_type = "numbered_list_item" THEN reset + 1 ELSE reset
        md == IF block_type = "numbered_list_item"
              THEN _block_to_markdown(block, 0, Some(counter))
              ELSE _block_to_markdown(block, 0, None)
    IN  [lines |-> IF md # "" THEN Append(loc.lines, md) ELSE loc.lines,
         numbered_list_counter |-> counter,
         prev_type |-> Some(block_type),
         md |-> md]

\* One iteration of `for block in self.results` of to_mdx.
to_mdx_body(loc, block) ==
    LET block_type == block.type
        reset == to_mdx_reset(block_type, loc.prev_type, loc.numbered_list_counter)
        counter == IF block_type = "numbered_list_item" THEN reset + 1 ELSE reset
        mdx == IF block_type = "numbered_list_item"
               THEN _block_to_mdx(block, 0, Some(counter))
               ELSE _block_to_mdx(block, 0, None)
    IN  [lines |-> IF mdx # "" THEN Append(loc.lines, mdx) ELSE loc.lines,
         numbered_list_counter |-> counter,
         prev_type |-> Some(block_type),
         md |-> mdx]

\* return "".join(lines)
to_markdown_result(loc) == Join("", loc.lines)

\* Mutant of to_mdx_result: the fragments are joined with a newline.
to_mdx_result_newline_joined(loc) == Join("\n", loc.lines)

to_mdx_result(loc) == Join("", loc.lines)

Locals(loc) ==
    [lines |-> loc.lines, numbered_list_counter |-> loc.numbered_list_counter,
     prev_type |-> loc.prev_type]

\* to_mdx as a function of the block sequence (the whole call)
RECURSIVE to_mdx_from(_, _, _)
to_mdx_from(loc, blocks, i) ==
    IF i > Len(blocks) THEN to_mdx_result(loc)
    ELSE to_mdx_from(Locals(to_mdx_body(loc, blocks[i])), blocks, i + 1)

to_mdx(blocks) == to_mdx_from(to_mdx_locals, blocks, 1)

\* to_markdown as a function of the block sequence (the whole call)
RECURSIVE to_markdown_from(_, _, _)
to_markdown_from(loc, blocks, i) ==
    IF i > Len(blocks) THEN to_markdown_result(loc)
    ELSE to_markdown_from(Locals(to_markdown_body(loc, blocks[i])), blocks, i + 1)

to_markdown(blocks) == to_markdown_from(to_markdown_locals, blocks, 1)

\* -------------------------------------------------------------------------
\* Sample values
\* -------------------------------------------------------------------------

ParagraphBlock(rich_text, color) ==
    [type |-> "paragraph", paragraph |-> RichTextBlockContent(rich_text, color)]

NumberedListItemBlock(rich_text, color) ==
    [type |-> "numbered_list_item",
     numbered_list_item |-> RichTextBlockContent(rich_text, color)]

DividerBlock == [type |-> "divider"]

UnsupportedBlock == [type |-> "unsupported"]

\* blocks the documents of the assembler runs are built from
SeqBlocks ==
    {NumberedListItemBlock(<<Plain("a")>>, DEFAULT),
     NumberedListItemBlock(<<Plain("b")>>, DEFAULT),
     ParagraphBlock(<<Plain("Hello")>>, "red"),
     DividerBlock,
     UnsupportedBlock}

\* blocks of the second response object, rendered in between
OtherBlocks == {NumberedListItemBlock(<<Plain("a")>>, DEFAULT), DividerBlock}

MaxBlocks == 3

MaxOther == 1

SeqsUpTo(S, n) == UNION {[1..k -> S] : k \in 0..n}

\* -------------------------------------------------------------------------
\* State of the assembler runs: calls of to_markdown / to_mdx on two response
\* objects, one loop iteration a step.
\*   results, has_more, next_cursor   the response object under observation
\*   other_results                    a second response object
\*   pc, callee, dialect              the call in progress ("idle": none yet)
\*   idx                              blocks of the loop already visited
\*   lines, numbered_list_counter, prev_type   the locals of the call
\*   fragments                        what the block renderer returned, per block
\*   ret                              the value the last call returned
\*   first_ret                        per object and dialect, the first value returned
\*   repeat                           the call in progress is not the first of its kind
\* -------------------------------------------------------------------------

VARIABLES results, has_more, next_cursor, other_results, pc, callee, dialect,
          idx, lines, numbered_list_counter, prev_type, fragments, ret,
          first_ret, repeat

inputVars == <<results, has_more, next_cursor, other_results>>

assemblerVars ==
    <<results, has_more, next_cursor, other_results, pc, callee, dialect,
      idx, lines, numbered_list_counter, prev_type, fragments, ret,
      first_ret, repeat>>

\* State of the formatter runs (_rich_text_to_markdown on one span list):
\*   rich_text_list   the argument;   formatted   None, then Some(return value)
VARIABLES rich_text_list, formatted

formatVars == <<rich_text_list, formatted>>

\* State of the color-wrap runs (_wrap_with_color on one text and color):
\*   wrap_text, wrap_color   the arguments;   wrapped   None, then Some(return value)
VARIABLES wrap_text, wrap_color, wrapped

colorVars == <<wrap_text, wrap_color, wrapped>>

\* State of the block-renderer runs (one block through both renderers):
\*   block, indent, number   the arguments
\*   md_fragment, mdx_fragment   None, then Some(return value) of each renderer
VARIABLES block, indent, number, md_fragment, mdx_fragment

blockVars == <<block, indent, number, md_fragment, mdx_fragment>>

\* State of the parser runs (get_block_children on one API response):
\*   response_json   the "results" array of the response body
\*   validated       None, then Some(outcome of PageBlocksResponse.model_validate)
VARIABLES response_json, validated

parseVars == <<response_json, validated>>

\* State of the batch runs (convert_pages_to_mdx on a list of pages):
\*   pages             the argument
\*   batch_pc          "start", "loop", "done", or "raised" (an exception left the call)
\*   page_i            pages of the loop already visited
\*   generated_files   the local list, returned at "done"
\*   files             the output directory: file name -> content written
\*   attempts          per visited page, what happened to it: whether it
\*                     succeeded, the path of its file, and the file written
VARIABLES pages, batch_pc, page_i, generated_files, files, attempts

batchVars == <<pages, batch_pc, page_i, generated_files, files, attempts>>

\* State of the paginated fetches (fetch_all_blocks / fetch_all_pages against
\* one remote collection):
\*   server           the collection as the API serves it, one record per page
\*   fetcher          which of the two functions is called
\*   fetch_pc         "start", "loop", "break" (the loop was left), "returned",
\*                    or "raised" (an exception left the call)
\*   all_results      the local list (all_pages in fetch_all_pages)
\*   cursor           the local cursor
\*   first_response   the local first_response (fetch_all_blocks only)
\*   requests         per request sent, its start_cursor parameter (None: absent)
\*   served           per request sent, the index of the page the API answered with
\*   responses        per response parsed, its has_more and next_cursor
\*   fetch_ret        None, then Some(return value)
VARIABLES server, fetcher, fetch_pc, all_results, cursor, first_response,
          requests, served, responses, fetch_ret

fetchVars ==
    <<server, fetcher, fetch_pc, all_results, cursor, first_response,
      requests, served, responses, fetch_ret>>

\* State of the concurrent renders (two callers, each one call of to_markdown
\* or to_mdx on one of the two response objects, interleaved between loop
\* iterations):
\*   invocations   per caller: pc ("idle", "loop", "returned"), the object and
\*                 dialect of its call, idx, its locals lines,
\*                 numbered_list_counter and prev_type, ret, and visited:
\*                 the blocks its loop has been handed so far, numbers: the
\*                 number argument passed for each, and fragments: what the
\*                 block renderer returned for each
VARIABLES invocations

threadVars == <<invocations>>

\* State of one call of convert_page_to_mdx(page, output_dir), statement by
\* statement:
\*   conv_page         the argument page
\*   conv_pc           "start", "render" (the blocks are fetched), "write"
\*                     (the content is rendered), "written", "except" (the
\*                     handler is entered), "returned"
\*   conv_blocks       None, then Some(the blocks fetch_all_blocks returned)
\*   conv_content      None, then Some(the rendered content)
\*   conv_error        None, or Some(the exception the handler caught)
\*   conv_dir          the output directory: file name -> content
\*   conv_dir_before   the output directory when the call was made
\*   conv_writes       the write_text calls made: file name and data
\*   conv_ret          the return value, once conv_pc = "returned"
VARIABLES conv_page, conv_pc, conv_blocks, conv_content, conv_error, conv_dir,
          conv_dir_before, conv_writes, conv_ret

convertVars ==
    <<conv_page, conv_pc, conv_blocks, conv_content, conv_error, conv_dir,
      conv_dir_before, conv_writes, conv_ret>>

\* State of one run of main():
\*   data_source_id   os.environ.get("BLOG_DATASOURCE_ID"): None when unset
\*   main_pc          "start", "fetch" (fetch_datasource_pages is running),
\*                    "convert" (convert_pages_to_mdx is running),
\*                    "file_count" (the files output is set), "summary",
\*                    "exited"
\*   github_output    the outputs set so far, in order: name and value
\*   uncaught         None, or Some(the exception that left main)
\*   exit_status      None, then Some(the status the process exits with)
VARIABLES data_source_id, main_pc, github_output, uncaught, exit_status

mainVars == <<data_source_id, main_pc, github_output, uncaught, exit_status>>

vars ==
    <<assemblerVars, formatVars, colorVars, blockVars, parseVars, batchVars,
      fetchVars, threadVars, convertVars, mainVars>>

Threads == {"t1", "t2"}

NotCalled ==
    [pc |-> "idle", callee |-> "self", dialect |-> "markdown", idx |-> 0,
     lines |-> <<>>, numbered_list_counter |-> 0, prev_type |-> None, ret |-> "",
     visited |-> <<>>, numbers |-> <<>>, fragments |-> <<>>]

ThreadIdle == invocations = [t \in Threads |-> NotCalled]

ConvertIdle ==
    /\ conv_page = <<>>
    /\ conv_pc = "start"
    /\ conv_blocks = None
    /\ conv_content = None
    /\ conv_error = None
    /\ conv_dir = <<>>
    /\ conv_dir_before = <<>>
    /\ conv_writes = <<>>
    /\ conv_ret = None

MainIdle ==
    /\ data_source_id = None
    /\ main_pc = "start"
    /\ github_output = <<>>
    /\ uncaught = None
    /\ exit_status = None

FetchIdle ==
    /\ server = <<>>
    /\ fetcher = "fetch_all_blocks"
    /\ fetch_pc = "start"
    /\ all_results = <<>>
    /\ cursor = None
    /\ first_response = None
    /\ requests = <<>>
    /\ served = <<>>
    /\ responses = <<>>
    /\ fetch_ret = None

FormatIdle == rich_text_list = <<>> /\ formatted = None

ColorIdle == wrap_text = "" /\ wrap_color = DEFAULT /\ wrapped = None

BlockIdle ==
    /\ block = [type |-> "divider"]
    /\ indent = 0
    /\ number = None
    /\ md_fragment = None
    /\ mdx_fragment = None

ParseIdle == response_json = <<>> /\ validated = None

BatchIdle ==
    /\ pages = <<>>
    /\ batch_pc = "start"
    /\ page_i = 0
    /\ generated_files = <<>>
    /\ files = <<>>
    /\ attempts = <<>>

Objects == {"self", "other"}

Dialects == {"markdown", "mdx"}

\* self.results of the object the call in progress was made on
Receiver == IF callee = "self" THEN results ELSE other_results

CurrentLocals ==
    [lines |-> lines, numbered_list_counter |-> numbered_list_counter,
     prev_type |-> prev_type]

\* The response objects are those fetch_all_blocks hands to the renderer
\* (has_more = False, next_cursor = None).  No call has been made.
AssemblerInit ==
    /\ results \in SeqsUpTo(SeqBlocks, MaxBlocks)
    /\ other_results \in SeqsUpTo(OtherBlocks, MaxOther)
    /\ has_more = FALSE
    /\ next_cursor = None
    /\ pc = "idle"
    /\ callee = "self"
    /\ dialect = "markdown"
    /\ idx = 0
    /\ lines = <<>>
    /\ numbered_list_counter = 0
    /\ prev_type = None
    /\ fragments = <<>>
    /\ ret = ""
    /\ first_ret = [o \in Objects |-> [d \in Dialects |-> None]]
    /\ repeat = FALSE

AssemblerIdle ==
    /\ results = <<>>
    /\ other_results = <<>>
    /\ has_more = FALSE
    /\ next_cursor = None
    /\ pc = "idle"
    /\ callee = "self"
    /\ dialect = "markdown"
    /\ idx = 0
    /\ lines = <<>>
    /\ numbered_list_counter = 0
    /\ prev_type = None
    /\ fragments = <<>>
    /\ ret = ""
    /\ first_ret = [o \in Objects |-> [d \in Dialects |-> None]]
    /\ repeat = FALSE

\* entry of to_markdown on obj: the locals are created
to_markdown_call(obj) ==
    /\ pc \in {"idle", "returned"}
    /\ pc' = "loop"
    /\ callee' = obj
    /\ dialect' = "markdown"
    /\ idx' = 0
    /\ lines' = to_markdown_locals.lines
    /\ numbered_list_counter' = to_markdown_locals.numbered_list_counter
    /\ prev_type' = to_markdown_locals.prev_type
    /\ fragments' = <<>>
    /\ repeat' = (first_ret[obj]["markdown"] # None)
    /\ UNCHANGED <<inputVars, ret, first_ret>>
    /\ UNCHANGED <<formatVars, colorVars, blockVars, parseVars, batchVars, fetchVars, threadVars, convertVars, mainVars>>

\* Mutant of to_mdx_call: the counter outlives the call (kept outside the
\* function instead of being a local).
to_mdx_call_stale_counter(obj) ==
    /\ pc \in {"idle", "returned"}
    /\ pc' = "loop"
    /\ callee' = obj
    /\ dialect' = "mdx"
    /\ idx' = 0
    /\ lines' = to_mdx_locals.lines
    /\ numbered_list_counter' = numbered_list_counter
    /\ prev_type' = to_mdx_locals.prev_type
    /\ fragments' = <<>>
    /\ repeat' = (first_ret[obj]["mdx"] # None)
    /\ UNCHANGED <<inputVars, ret, first_ret>>
    /\ UNCHANGED <<formatVars, colorVars, blockVars, parseVars, batchVars, fetchVars, threadVars, convertVars, mainVars>>

\* entry of to_mdx on obj
to_mdx_call(obj) ==
    /\ pc \in {"idle", "returned"}
    /\ pc' = "loop"
    /\ callee' = obj
    /\ dialect' = "mdx"
    /\ idx' = 0
    /\ lines' = to_mdx_locals.lines
    /\ numbered_list_counter' = to_mdx_locals.numbered_list_counter
    /\ prev_type' = to_mdx_locals.prev_type
    /\ fragments' = <<>>
    /\ repeat' = (first_ret[obj]["mdx"] # None)
    /\ UNCHANGED <<inputVars, ret, first_ret>>
    /\ UNCHANGED <<formatVars, colorVars, blockVars, parseVars, batchVars, fetchVars, threadVars, convertVars, mainVars>>

\* Mutant of to_markdown_step: the loop consumes self.results (pop(0)) instead
\* of iterating over it.
to_markdown_step_popping ==
    /\ pc = "loop" /\ dialect = "markdown"
    /\ idx < Len(Receiver)
    /\ LET out == to_markdown_body(CurrentLocals, Receiver[1])
       IN  /\ lines' = out.lines
           /\ numbered_list_counter' = out.numbered_list_counter
           /\ prev_type' = out.prev_type
           /\ fragments' = Append(fragments, out.md)
    /\ idx' = idx
    /\ results' = IF callee = "self" THEN Tail(results) ELSE results
    /\ other_results' = IF callee = "other" THEN Tail(other_results) ELSE other_results
    /\ UNCHANGED <<has_more, next_cursor, pc, callee, dialect, ret, first_ret, repeat>>
    /\ UNCHANGED <<formatVars, colorVars, blockVars, parseVars, batchVars, fetchVars, threadVars, convertVars, mainVars>>

to_markdown_step ==
    /\ pc = "loop" /\ dialect = "markdown"
    /\ idx < Len(Receiver)
    /\ LET out == to_markdown_body(CurrentLocals, Receiver[idx + 1])
       IN  /\ lines' = out.lines
           /\ numbered_list_counter' = out.numbered_list_counter
           /\ prev_type' = out.prev_type
           /\ fragments' = Append(fragments, out.md)
    /\ idx' = idx + 1
    /\ UNCHANGED <<inputVars, pc, callee, dialect, ret, first_ret, repeat>>
    /\ UNCHANGED <<formatVars, colorVars, blockVars, parseVars, batchVars, fetchVars, threadVars, convertVars, mainVars>>

to_mdx_step ==
    /\ pc = "loop" /\ dialect = "mdx"
    /\ idx < Len(Receiver)
    /\ LET out == to_mdx_body(CurrentLocals, Receiver[idx + 1])
       IN  /\ lines' = out.lines
           /\ numbered_list_counter' = out.numbered_list_counter
           /\ prev_type' = out.prev_type
           /\ fragments' = Append(fragments, out.md)
    /\ idx' = idx + 1
    /\ UNCHANGED <<inputVars, pc, callee, dialect, ret, first_ret, repeat>>
    /\ UNCHANGED <<formatVars, colorVars, blockVars, parseVars, batchVars, fetchVars, threadVars, convertVars, mainVars>>

\* first_ret keeps the first value each (object, dialect) returned
Remember(value) ==
    IF first_ret[callee][dialect] = None
    THEN [first_ret EXCEPT ![callee][dialect] = Some(value)]
    ELSE first_ret

to_markdown_return ==
    /\ pc = "loop" /\ dialect = "markdown"
    /\ idx = Len(Receiver)
    /\ pc' = "returned"
    /\ ret' = to_markdown_result(CurrentLocals)
    /\ first_ret' = Remember(to_markdown_result(CurrentLocals))
    /\ UNCHANGED <<inputVars, callee, dialect, idx, lines, numbered_list_counter,
                   prev_type, fragments, repeat>>
    /\ UNCHANGED <<formatVars, colorVars, blockVars, parseVars, batchVars, fetchVars, threadVars, convertVars, mainVars>>

to_mdx_return ==
    /\ pc = "loop" /\ dialect = "mdx"
    /\ idx = Len(Receiver)
    /\ pc' = "returned"
    /\ ret' = to_mdx_result(CurrentLocals)
    /\ first_ret' = Remember(to_mdx_result(CurrentLocals))
    /\ UNCHANGED <<inputVars, callee, dialect, idx, lines, numbered_list_counter,
                   prev_type, fragments, repeat>>
    /\ UNCHANGED <<formatVars, colorVars, blockVars, parseVars, batchVars, fetchVars, threadVars, convertVars, mainVars>>

Init ==
    /\ AssemblerInit
    /\ FormatIdle /\ ColorIdle /\ BlockIdle /\ ParseIdle /\ BatchIdle /\ FetchIdle /\ ThreadIdle /\ ConvertIdle /\ MainIdle

Next ==
    \/ \E obj \in Objects : to_markdown_call(obj)
    \/ to_markdown_step
    \/ to_markdown_return
    \/ \E obj \in Objects : to_mdx_call(obj)
    \/ to_mdx_step
    \/ to_mdx_return

Spec == Init /\ [][Next]_vars

\* -------------------------------------------------------------------------
\* Claims about the document assemblers (specification Spec)
\* -------------------------------------------------------------------------

NLI_a == NumberedListItemBlock(<<Plain("a")>>, DEFAULT)

NLI_b == NumberedListItemBlock(<<Plain("b")>>, DEFAULT)

RedHello == ParagraphBlock(<<Plain("Hello")>>, "red")

StartsWith(s, prefix) ==
    Len(prefix) <= Len(s) /\ SubSeq(s, 1, Len(prefix)) = prefix

\* 1 + the number of numbered_list_item blocks immediately and consecutively
\* before position i
RECURSIVE RunPosition(_, _)
RunPosition(blocks, i) ==
    IF i > 1 /\ blocks[i - 1].type = "numbered_list_item"
    THEN 1 + RunPosition(blocks, i - 1)
    ELSE 1

\* C1: in to_markdown and in to_mdx, the number printed for a
\* numbered_list_item block is 1 plus the count of numbered_list_item blocks
\* immediately before it: a run starts at 1, grows by 1 per item, and any
\* other block in between (also one rendering to "") restarts it; items "a",
\* "b" give "1. a\n2. b\n".
C1_NumberedListRuns ==
    pc \in {"loop", "returned"} =>
        /\ \A i \in 1..idx :
              Receiver[i].type = "numbered_list_item" =>
                  StartsWith(fragments[i],
                             ToString(RunPosition(Receiver, i)) \o ". ")
        /\ (pc = "returned" /\ Receiver = <<NLI_a, NLI_b>>) => ret = "1. a\n2. b\n"

C1_Witness ==
    /\ pc = "returned"
    /\ callee = "self"
    /\ results = <<NLI_a, UnsupportedBlock, NLI_b>>
    /\ fragments = <<"1. a\n", "", "1. b\n">>

\* the fragments of the visited blocks whose type a renderer case matches
RECURSIVE MatchedFragments(_, _, _)
MatchedFragments(blocks, frags, n) ==
    IF n = 0 THEN <<>>
    ELSE IF blocks[n].type \in BlockTypes \ {"unsupported"}
         THEN Append(MatchedFragments(blocks, frags, n - 1), frags[n])
         ELSE MatchedFragments(blocks, frags, n - 1)

RECURSIVE Concat(_)
Concat(parts) == IF parts = <<>> THEN "" ELSE Head(parts) \o Concat(Tail(parts))

\* C3: a block of the unsupported variant (or of any type no renderer case
\* matches) renders to "" in both dialects, and the document built so far is
\* the concatenation of the other blocks' fragments: it adds nothing.
C3_UnsupportedRendersEmpty ==
    pc \in {"loop", "returned"} =>
        /\ \A i \in 1..idx :
              Receiver[i].type \notin BlockTypes \ {"unsupported"} => fragments[i] = ""
        /\ Concat(lines) = Concat(MatchedFragments(Receiver, fragments, idx))

C3_Witness ==
    /\ pc = "returned"
    /\ dialect = "mdx"
    /\ callee = "self"
    /\ results = <<UnsupportedBlock, DividerBlock, UnsupportedBlock>>
    /\ ret = "---\n"

\* C4: every call of to_markdown (to_mdx) on a response object returns the
\* string its first call returned, whatever calls were made in between on
\* this or on the other object.
C4_RenderDeterministic ==
    pc = "returned" => first_ret[callee][dialect] = Some(ret)

C4_Witness ==
    /\ pc = "returned"
    /\ repeat
    /\ callee = "self"
    /\ dialect = "mdx"
    /\ results = <<NLI_a, NLI_b>>
    /\ other_results = <<NLI_a>>
    /\ first_ret["other"]["mdx"] # None
    /\ first_ret["self"]["markdown"] # None
    /\ ret = "1. a\n2. b\n"

\* C5: no step of a render call changes the response objects: results (and
\* every block and span in it), has_more and next_cursor stay as they were.
C5_RenderLeavesInputUnchanged ==
    [][/\ results' = results
       /\ other_results' = other_results
       /\ has_more' = has_more
       /\ next_cursor' = next_cursor]_vars

C5_Witness ==
    /\ pc = "returned"
    /\ callee = "self"
    /\ dialect = "markdown"
    /\ results = <<RedHello, NLI_a, DividerBlock>>
    /\ idx = 3
    /\ ret = "Hello\n1. a\n---\n"

\* the number argument the assembler passes for position i
NumberArg(blocks, i) ==
    IF blocks[i].type = "numbered_list_item" THEN Some(RunPosition(blocks, i)) ELSE None

NotionColor ==
    {"default", "gray", "brown", "orange", "yellow", "green", "blue", "purple",
     "pink", "red", "gray_background", "brown_background", "orange_background",
     "yellow_background", "green_background", "blue_background",
     "purple_background", "pink_background", "red_background"}

\* every combination of the five flags, with two colors, two texts, and href
\* absent, empty or set
Spans ==
    {RichText(t, Annotations(b, i, s, u, c, col), h) :
        t \in {"x", "a b"}, b \in BOOLEAN, i \in BOOLEAN, s \in BOOLEAN,
        u \in BOOLEAN, c \in BOOLEAN, col \in {"default", "red"},
        h \in {None, Some(""), Some("u")}}

BoldLink == RichText("a", Annotations(TRUE, FALSE, FALSE, FALSE, FALSE, DEFAULT), Some("u"))

UnderlinedRedX ==
    RichText("x", Annotations(FALSE, FALSE, FALSE, TRUE, FALSE, "red"), None)

\* the spans the longer lists are made of
ListSpans ==
    {Plain("x"), UnderlinedRedX, BoldLink,
     RichText("a", Annotations(TRUE, FALSE, FALSE, TRUE, FALSE, "red"), Some("u"))}

MaxSpans == 3

FormatInputs ==
    {<<>>} \cup {<<rt>> : rt \in Spans}
           \cup {<<BoldLink, Plain(" b")>>, <<Plain("l1\nl2")>>, <<Plain("")>>}
           \cup SeqsUpTo(ListSpans, MaxSpans)

FormatInit ==
    /\ rich_text_list \in FormatInputs
    /\ formatted = None

\* a call of _rich_text_to_markdown(rich_text_list)
rich_text_to_markdown_call ==
    /\ formatted = None
    /\ formatted' = Some(_rich_text_to_markdown(rich_text_list))
    /\ UNCHANGED rich_text_list
    /\ UNCHANGED <<assemblerVars, colorVars, blockVars, parseVars, batchVars, fetchVars, threadVars, convertVars, mainVars>>

InitFormat ==
    /\ FormatInit
    /\ AssemblerIdle /\ ColorIdle /\ BlockIdle /\ ParseIdle /\ BatchIdle /\ FetchIdle /\ ThreadIdle /\ ConvertIdle /\ MainIdle

NextFormat == rich_text_to_markdown_call

SpecFormat == InitFormat /\ [][NextFormat]_vars

Wrapped(flag, mark, t) == IF flag THEN mark \o t \o mark ELSE t

\* the composition the claim states, innermost first; a link needs a
\* non-empty href
Composed(rt) ==
    LET a == rt.annotations
        inner == Wrapped(a.strikethrough, "~~",
                   Wrapped(a.italic, "*",
                     Wrapped(a.bold, "**",
                       Wrapped(a.code, BACKTICK, rt.plain_text))))
    IN  IF rt.href # None /\ rt.href[1] # ""
        THEN "[" \o inner \o "](" \o rt.href[1] \o ")"
        ELSE inner

XBoldCode == RichText("x", Annotations(TRUE, FALSE, FALSE, FALSE, TRUE, DEFAULT), Some("u"))

\* C6: a span is wrapped, innermost to outermost, in backticks if code, in
\* double asterisks if bold, in single asterisks if italic, in double tildes
\* if strikethrough, and last in [text](href) if it has an href; text "x",
\* bold and code, href "u" gives [**`x`**](u).
C6_FormattingOrder ==
    (formatted # None /\ Len(rich_text_list) = 1) =>
        /\ formatted[1] = Composed(rich_text_list[1])
        /\ rich_text_list[1] = XBoldCode =>
              formatted[1] = "[**" \o BACKTICK \o "x" \o BACKTICK \o "**](u)"

C6_Witness ==
    /\ rich_text_list = <<XBoldCode>>
    /\ formatted = Some("[**&#96;x&#96;**](u)")

\* -------------------------------------------------------------------------
\* The color policy on its own (specification SpecColor)
\* -------------------------------------------------------------------------

WrapTexts ==
    {"", "x", "Hello", "red", "a red b", "gray_background",
     "<Span color=\"blue\">x</Span>"}

ColorInit ==
    /\ wrap_text \in WrapTexts
    /\ wrap_color \in NotionColor
    /\ wrapped = None

\* a call of _wrap_with_color(wrap_text, wrap_color)
wrap_with_color_call ==
    /\ wrapped = None
    /\ wrapped' = Some(_wrap_with_color(wrap_text, wrap_color))
    /\ UNCHANGED <<wrap_text, wrap_color>>
    /\ UNCHANGED <<assemblerVars, formatVars, blockVars, parseVars, batchVars, fetchVars, threadVars, convertVars, mainVars>>

InitColor ==
    /\ ColorInit
    /\ AssemblerIdle /\ FormatIdle /\ BlockIdle /\ ParseIdle /\ BatchIdle /\ FetchIdle /\ ThreadIdle /\ ConvertIdle /\ MainIdle

NextColor == wrap_with_color_call

SpecColor == InitColor /\ [][NextColor]_vars

\* C7 as stated: the default color returns the text unchanged; any other
\* color gives an output that contains the color token exactly once,
\* whatever the text.
C7_ColorTokenExactlyOnce ==
    wrapped # None =>
        /\ wrap_color = DEFAULT => wrapped[1] = wrap_text
        /\ wrap_color # DEFAULT => CountOccurrences(wrap_color, wrapped[1]) = 1

\* C7 (amended): the default color returns the text unchanged; any other
\* color returns <Span color="C">text</Span>, which contains the color token
\* once more than the text does (exactly once when the text has none).
C7_ColorTokenOnceMoreThanText ==
    wrapped # None =>
        /\ wrap_color = DEFAULT => wrapped[1] = wrap_text
        /\ wrap_color # DEFAULT =>
              /\ wrapped[1] = "<Span color=\"" \o wrap_color \o "\">" \o wrap_text
                                \o "</Span>"
              /\ CountOccurrences(wrap_color, wrapped[1])
                   = 1 + CountOccurrences(wrap_color, wrap_text)
              /\ CountOccurrences(wrap_color, wrap_text) = 0 =>
                    CountOccurrences(wrap_color, wrapped[1]) = 1

C7_Witness ==
    /\ wrap_text = "Hello"
    /\ wrap_color = "gray_background"
    /\ wrapped = Some("<Span color=\"gray_background\">Hello</Span>")

\* -------------------------------------------------------------------------
\* One block through both block renderers (specification SpecBlock)
\* -------------------------------------------------------------------------

\* a block of type t with payload content under the field named t
BlockOf(t, content) == [type |-> t] @@ (t :> content)

SampleRichTexts ==
    {<<>>, <<Plain("Hello")>>, <<BoldLink, Plain(" b")>>, <<Plain("l1\nl2")>>,
     <<Plain("")>>, <<Plain("note")>>}

SampleColors == {"default", "red", "blue_background"}

SampleIcons ==
    {None, Some(EmojiIcon("&#128161;")), Some(FileIcon("external", Some([url |-> "http://i"])))}

SampleFiles ==
    {FileObject(ty, ext, cap, nm) :
        ty \in {"external", "file", "file_upload"},
        ext \in {None, Some([url |-> "http://f"])},
        cap \in {<<>>, <<Plain("Hello")>>},
        nm \in {None, Some("doc.pdf")}}

\* a block whose type no renderer case matches
UnmatchedBlock == [type |-> "template"]

AllBlocks ==
    {BlockOf(t, RichTextBlockContent(rt, c)) :
        t \in {"paragraph", "heading_1", "heading_2", "heading_3",
               "bulleted_list_item", "numbered_list_item", "toggle", "quote"},
        rt \in SampleRichTexts, c \in SampleColors}
    \cup {BlockOf("to_do", ToDoContent(rt, c, k)) :
            rt \in SampleRichTexts, c \in SampleColors, k \in BOOLEAN}
    \cup {BlockOf("code", CodeContent(rt, l)) :
            rt \in SampleRichTexts, l \in {"python", "plain text"}}
    \cup {BlockOf("callout", CalloutContent(rt, ic, c)) :
            rt \in SampleRichTexts, ic \in SampleIcons, c \in SampleColors}
    \cup {BlockOf(t, f) : t \in {"image", "video", "audio", "file", "pdf"},
                          f \in SampleFiles}
    \cup {BlockOf("bookmark", [url |-> "http://b", caption |-> cap]) :
            cap \in {<<>>, <<Plain("Hello")>>}}
    \cup {BlockOf(t, [url |-> "http://e"]) : t \in {"embed", "link_preview"}}
    \cup {BlockOf(t, [title |-> "Sub"]) : t \in {"child_page", "child_database"}}
    \cup {BlockOf("equation", [expression |-> "e=mc^2"])}
    \cup {BlockOf("table_of_contents", [color |-> c]) : c \in SampleColors}
    \cup {BlockOf("table_row", [cells |-> cs]) :
            cs \in {<<>>, <<<<Plain("Hello")>>, <<BoldLink, Plain(" b")>>>>}}
    \cup {BlockOf("table", [table_width |-> 2])}
    \cup {[type |-> t] : t \in {"divider", "breadcrumb", "column_list", "column",
                                "unsupported"}}
    \cup {UnmatchedBlock}

MaxIndent == 1

MaxNumber == 2

BlockInit ==
    /\ block \in AllBlocks
    /\ indent \in 0..MaxIndent
    /\ number \in {None} \cup {Some(n) : n \in 1..MaxNumber}
    /\ md_fragment = None
    /\ mdx_fragment = None

\* a call of _block_to_markdown(block, indent, number)
block_to_markdown_call ==
    /\ md_fragment = None
    /\ md_fragment' = Some(_block_to_markdown(block, indent, number))
    /\ UNCHANGED <<block, indent, number, mdx_fragment>>
    /\ UNCHANGED <<assemblerVars, formatVars, colorVars, parseVars, batchVars, fetchVars, threadVars, convertVars, mainVars>>

\* a call of _block_to_mdx(block, indent, number)
block_to_mdx_call ==
    /\ mdx_fragment = None
    /\ mdx_fragment' = Some(_block_to_mdx(block, indent, number))
    /\ UNCHANGED <<block, indent, number, md_fragment>>
    /\ UNCHANGED <<assemblerVars, formatVars, colorVars, parseVars, batchVars, fetchVars, threadVars, convertVars, mainVars>>

InitBlock ==
    /\ BlockInit
    /\ AssemblerIdle /\ FormatIdle /\ ColorIdle /\ ParseIdle /\ BatchIdle /\ FetchIdle /\ ThreadIdle /\ ConvertIdle /\ MainIdle

NextBlock ==
    \/ block_to_markdown_call
    \/ block_to_mdx_call

SpecBlock == InitBlock /\ [][NextBlock]_vars

\* C8: a paragraph whose rich-text list is empty renders as exactly "\n" in
\* both dialects, whatever its color; a divider renders as exactly "---\n"
\* in both dialects.
C8_BoundaryRendering ==
    /\ (block.type = "paragraph" /\ block.paragraph.rich_text = <<>>) =>
          /\ md_fragment # None => md_fragment[1] = "\n"
          /\ mdx_fragment # None => mdx_fragment[1] = "\n"
    /\ block.type = "divider" =>
          /\ md_fragment # None => md_fragment[1] = "---\n"
          /\ mdx_fragment # None => mdx_fragment[1] = "---\n"

C8_Witness ==
    /\ block = ParagraphBlock(<<>>, "red")
    /\ indent = 1
    /\ md_fragment = Some("\n")
    /\ mdx_fragment = Some("\n")

\* -------------------------------------------------------------------------
\* Parsing a block-children response (specification SpecParse)
\* -------------------------------------------------------------------------

\* the block models whose payload field has no default (all but those with a
\* default_factory and UnsupportedBlock, which has none)
PayloadRequired ==
    BlockTypes \ {"divider", "breadcrumb", "column_list", "column", "unsupported"}

\* Validation of one element of "results" against the discriminated union
\* Block (Field(discriminator="type")): the tag selects the member model; a
\* tag that is no member's Literal is a union_tag_invalid error, a missing
\* required payload a missing error.
validate_block(raw) ==
    IF raw.type \notin BlockTypes
    THEN [ok |-> FALSE, error |-> "union_tag_invalid"]
    ELSE IF raw.type \in PayloadRequired /\ raw.type \notin DOMAIN raw
    THEN [ok |-> FALSE, error |-> "missing"]
    ELSE [ok |-> TRUE, block |-> raw]

\* PageBlocksResponse.model_validate: every element must validate, or the
\* call raises ValidationError and no response object exists.
model_validate(json_results) ==
    LET checked == [i \in 1..Len(json_results) |-> validate_block(json_results[i])]
    IN  IF \A i \in 1..Len(json_results) : checked[i].ok
        THEN [raised |-> None,
              results |-> [i \in 1..Len(json_results) |-> checked[i].block]]
        ELSE [raised |-> Some("ValidationError"), results |-> <<>>]

\* get_block_children: the request, raise_for_status, then model_validate
get_block_children(http_ok, json_results) ==
    IF ~http_ok
    THEN [raised |-> Some("HTTPError"), results |-> <<>>]
    ELSE model_validate(json_results)

SyncedBlockJson == BlockOf("synced_block", [synced_from |-> None])

\* elements of "results" as the API sends them
RawBlocks ==
    {BlockOf("paragraph", RichTextBlockContent(<<Plain("Hello")>>, DEFAULT)),
     BlockOf("numbered_list_item", RichTextBlockContent(<<Plain("a")>>, DEFAULT)),
     [type |-> "divider"],
     [type |-> "unsupported"],
     [type |-> "paragraph"],
     SyncedBlockJson}

MaxRaw == 3

ParseInit ==
    /\ response_json \in SeqsUpTo(RawBlocks, MaxRaw)
    /\ validated = None

get_block_children_call ==
    /\ validated = None
    /\ \E http_ok \in BOOLEAN :
          validated' = Some(get_block_children(http_ok, response_json))
    /\ UNCHANGED response_json
    /\ UNCHANGED <<assemblerVars, formatVars, colorVars, blockVars, batchVars, fetchVars, threadVars, convertVars, mainVars>>

InitParse ==
    /\ ParseInit
    /\ AssemblerIdle /\ FormatIdle /\ ColorIdle /\ BlockIdle /\ BatchIdle /\ FetchIdle /\ ThreadIdle /\ ConvertIdle /\ MainIdle

NextParse == get_block_children_call

SpecParse == InitParse /\ [][NextParse]_vars

\* the element is well-formed for a type of the closed set
WellFormed(raw) ==
    raw.type \in BlockTypes /\ (raw.type \in PayloadRequired => raw.type \in DOMAIN raw)

\* C2: a response in which some block has a type outside the closed set (and
\* nothing else is wrong) parses: that block becomes an unsupported block and
\* the other blocks are parsed as usual.
C2_UnknownTypeMapsToUnsupported ==
    (/\ validated # None
     /\ validated[1].raised # Some("HTTPError")
     /\ \A i \in 1..Len(response_json) :
           response_json[i].type \notin BlockTypes \/ WellFormed(response_json[i]))
    => /\ validated[1].raised = None
       /\ Len(validated[1].results) = Len(response_json)
       /\ \A i \in 1..Len(response_json) :
             IF response_json[i].type \in BlockTypes
             THEN validated[1].results[i] = response_json[i]
             ELSE validated[1].results[i].type = "unsupported"

\* -------------------------------------------------------------------------
\* File names (utils/notion.py sanitize_filename)
\* -------------------------------------------------------------------------

UpperLetters == "ABCDEFGHIJKLMNOPQRSTUVWXYZ"

LowerLetters == "abcdefghijklmnopqrstuvwxyz"

Digits == "0123456789"

CharsOf(s) == {SubSeq(s, i, i) : i \in 1..Len(s)}

\* str.lower() of one character (ASCII letters; the texts of the model hold
\* no other cased character)
LowerChar(c) ==
    IF c \in CharsOf(UpperLetters)
    THEN LET i == CHOOSE k \in 1..Len(UpperLetters) : SubSeq(UpperLetters, k, k) = c
         IN  SubSeq(LowerLetters, i, i)
    ELSE c

\* c.isalnum() for the characters of the model's texts
IsAlnum(c) == c \in CharsOf(UpperLetters) \cup CharsOf(LowerLetters) \cup CharsOf(Digits)

\* name.lower().replace(" ", "-")
RECURSIVE LowerDashed(_)
LowerDashed(name) ==
    IF name = "" THEN ""
    ELSE LET c == LowerChar(SubSeq(name, 1, 1))
         IN  (IF c = " " THEN "-" ELSE c) \o LowerDashed(SubSeq(name, 2, Len(name)))

\* "".join(c for c in safe if c.isalnum() or c in "-_")
RECURSIVE KeepSafe(_)
KeepSafe(safe) ==
    IF safe = "" THEN ""
    ELSE LET c == SubSeq(safe, 1, 1)
         IN  (IF IsAlnum(c) \/ c \in {"-", "_"} THEN c ELSE "")
               \o KeepSafe(SubSeq(safe, 2, Len(safe)))

\* safe.replace("--", "-"): non-overlapping occurrences, left to right
RECURSIVE ReplaceDoubleDash(_)
ReplaceDoubleDash(safe) ==
    IF Len(safe) < 2 THEN safe
    ELSE IF SubSeq(safe, 1, 2) = "--"
         THEN "-" \o ReplaceDoubleDash(SubSeq(safe, 3, Len(safe)))
         ELSE SubSeq(safe, 1, 1) \o ReplaceDoubleDash(SubSeq(safe, 2, Len(safe)))

\* while "--" in safe: safe = safe.replace("--", "-")
RECURSIVE CollapseDashes(_)
CollapseDashes(safe) ==
    IF CountOccurrences("--", safe) > 0
    THEN CollapseDashes(ReplaceDoubleDash(safe))
    ELSE safe

\* safe.strip("-")
RECURSIVE StripDashes(_)
StripDashes(safe) ==
    IF safe = "" THEN ""
    ELSE IF SubSeq(safe, 1, 1) = "-" THEN StripDashes(SubSeq(safe, 2, Len(safe)))
    ELSE IF SubSeq(safe, Len(safe), Len(safe)) = "-"
         THEN StripDashes(SubSeq(safe, 1, Len(safe) - 1))
    ELSE safe

sanitize_filename(name) ==
    LET safe == StripDashes(CollapseDashes(KeepSafe(LowerDashed(name))))
    IN  IF safe # "" THEN safe ELSE "untitled"

\* -------------------------------------------------------------------------
\* Batch conversion (tasks/mdx_converter.py; specification SpecBatch)
\* -------------------------------------------------------------------------

\* a BlogPage, by what its get_* methods return; last_edited is
\* last_edited_time.isoformat()
BlogPage(title, slug, status) ==
    [title |-> title, slug |-> slug, status |-> status, description |-> "about",
     type |-> None, tags |-> <<"t1", "t2">>, last_edited |-> "2024-01-02T03:04:05+00:00"]

\* f"{value}" of an optional string
FormatOptional(opt) == IF opt = None THEN "None" ELSE opt[1]

\* json.dumps of a list of plain strings
JsonDumps(tags) ==
    "[" \o Join(", ", [i \in 1..Len(tags) |-> "\"" \o tags[i] \o "\""]) \o "]"

Frontmatter(page) ==
    "---\n"
    \o "title: \"" \o page.title \o "\"\n"
    \o "slug: \"" \o page.slug \o "\"\n"
    \o "description: \"" \o page.description \o "\"\n"
    \o "type: \"" \o (IF page.type # None /\ page.type[1] # "" THEN page.type[1] ELSE "")
    \o "\"\n"
    \o "status: \"" \o FormatOptional(page.status) \o "\"\n"
    \o "tags: " \o JsonDumps(page.tags) \o "\n"
    \o "last_edited: \"" \o page.last_edited \o "\"\n"
    \o "---\n\n"

\* Mutant of Filename: the slug is used even when it is empty.
FilenameSlugOnly(page) == page.slug \o ".mdx"

\* (slug or sanitize_filename(title)) + ".mdx"
Filename(page) ==
    (IF page.slug # "" THEN page.slug ELSE sanitize_filename(page.title)) \o ".mdx"

\* str(output_dir / filename)
FilePath(output_dir, filename) == output_dir \o "/" \o filename

\* Mutant of convert_page_to_mdx: no try/except, the error leaves the function.
convert_page_to_mdx_unguarded(page, output_dir, env) ==
    LET filename == Filename(page)
        file_path == FilePath(output_dir, filename)
        content == to_mdx(env.blocks)
    IN  IF env.fetch # "ok"
        THEN [ret |-> None, raised |-> TRUE, written |-> None]
        ELSE IF env.write # "ok"
        THEN [ret |-> None, raised |-> TRUE, written |-> None]
        ELSE [ret |-> Some(file_path), raised |-> FALSE,
              written |-> Some([name |-> filename,
                                content |-> Frontmatter(page) \o content])]

\* convert_page_to_mdx(page, output_dir) in a world env = [fetch, blocks,
\* write]: fetch is "ok" or the exception fetch_all_blocks raises, blocks the
\* blocks it returns, write "ok" or the exception write_text raises.  The
\* result is the return value, whether an exception left the function, and
\* the file written (None: none).
convert_page_to_mdx(page, output_dir, env) ==
    LET filename == Filename(page)
        file_path == FilePath(output_dir, filename)
        content == to_mdx(env.blocks)
    IN  IF env.fetch # "ok"
        THEN [ret |-> None, raised |-> FALSE, written |-> None]
        ELSE IF env.write # "ok"
        THEN [ret |-> None, raised |-> FALSE, written |-> None]
        ELSE [ret |-> Some(file_path), raised |-> FALSE,
              written |-> Some([name |-> filename,
                                content |-> Frontmatter(page) \o content])]

SamplePages ==
    {BlogPage("My Post", "my-post", Some("Publish")),
     BlogPage("Hello, World!", "", Some("Publish")),
     BlogPage("--  --", "", Some("Publish")),
     BlogPage("My Post", "", None)}

SampleEnvs ==
    {[fetch |-> "ok", blocks |-> b, write |-> w] :
        b \in {<<>>, <<NLI_a, NLI_b>>}, w \in {"ok", "OSError"}}
    \cup {[fetch |-> e, blocks |-> <<>>, write |-> "ok"] :
            e \in {"HTTPError", "ValidationError"}}

\* str(Path("./content"))
OutputDir == "content"

MaxPages == 3

BatchInit ==
    /\ pages \in SeqsUpTo(SamplePages, MaxPages)
    /\ batch_pc = "start"
    /\ page_i = 0
    /\ generated_files = <<>>
    /\ files = <<>>
    /\ attempts = <<>>

\* output_path.mkdir(parents=True, exist_ok=True); generated_files = []
convert_pages_to_mdx_start ==
    /\ batch_pc = "start"
    /\ \E mkdir_ok \in BOOLEAN :
          batch_pc' = IF mkdir_ok THEN "loop" ELSE "raised"
    /\ generated_files' = <<>>
    /\ UNCHANGED <<pages, page_i, files, attempts>>
    /\ UNCHANGED <<assemblerVars, formatVars, colorVars, blockVars, parseVars, fetchVars, threadVars, convertVars, mainVars>>

\* one iteration of `for page in pages`
convert_pages_to_mdx_step ==
    /\ batch_pc = "loop"
    /\ page_i < Len(pages)
    /\ \E env \in SampleEnvs :
          LET r == convert_page_to_mdx(pages[page_i + 1], OutputDir, env)
          IN  /\ files' = IF r.written # None
                          THEN (r.written[1].name :> r.written[1].content) @@ files
                          ELSE files
              /\ attempts' = Append(attempts, [succeeded |-> env.fetch = "ok" /\ env.write = "ok",
                                               path |-> FilePath(OutputDir,
                                                                 Filename(pages[page_i + 1])),
                                               written |-> r.written])
              /\ IF r.raised
                 THEN /\ batch_pc' = "raised"
                      /\ UNCHANGED <<generated_files, page_i>>
                 ELSE /\ batch_pc' = "loop"
                      /\ page_i' = page_i + 1
                      /\ generated_files' = IF TruthyStr(r.ret)
                                            THEN Append(generated_files, r.ret[1])
                                            ELSE generated_files
    /\ UNCHANGED pages
    /\ UNCHANGED <<assemblerVars, formatVars, colorVars, blockVars, parseVars, fetchVars, threadVars, convertVars, mainVars>>

\* return generated_files
convert_pages_to_mdx_return ==
    /\ batch_pc = "loop"
    /\ page_i = Len(pages)
    /\ batch_pc' = "done"
    /\ UNCHANGED <<pages, page_i, generated_files, files, attempts>>
    /\ UNCHANGED <<assemblerVars, formatVars, colorVars, blockVars, parseVars, fetchVars, threadVars, convertVars, mainVars>>

InitBatch ==
    /\ BatchInit
    /\ AssemblerIdle /\ FormatIdle /\ ColorIdle /\ BlockIdle /\ ParseIdle /\ FetchIdle /\ ThreadIdle /\ ConvertIdle /\ MainIdle

NextBatch ==
    \/ convert_pages_to_mdx_start
    \/ convert_pages_to_mdx_step
    \/ convert_pages_to_mdx_return

SpecBatch == InitBatch /\ [][NextBatch]_vars

\* the paths of the attempts that succeeded, in order
RECURSIVE SucceededPaths(_)
SucceededPaths(as) ==
    IF as = <<>> THEN <<>>
    ELSE (IF Head(as).succeeded THEN <<Head(as).path>> ELSE <<>>)
           \o SucceededPaths(Tail(as))

\* C10: a page whose conversion fails (fetch, parse, render or write error)
\* does not abort the batch: no exception leaves convert_pages_to_mdx once
\* the loop runs, every page is attempted, and the returned list is, in input
\* order, the paths of the pages that succeeded.
C10_BatchFailureIsolation ==
    /\ batch_pc = "raised" => attempts = <<>>
    /\ batch_pc \in {"loop", "done"} =>
          /\ Len(attempts) = page_i
          /\ generated_files = SucceededPaths(attempts)
    /\ batch_pc = "done" => Len(attempts) = Len(pages)

C10_Witness ==
    /\ batch_pc = "done"
    /\ Len(pages) = 3
    /\ attempts[1].succeeded /\ ~attempts[2].succeeded /\ attempts[3].succeeded
    /\ generated_files = <<"content/my-post.mdx", "content/hello-world.mdx">>
    /\ DOMAIN files = {"my-post.mdx", "hello-world.mdx"}

\* -------------------------------------------------------------------------
\* Paginated fetches (utils/notion.py; specifications SpecFetch, FairSpecFetch)
\* -------------------------------------------------------------------------

\* the cursor the API hands out for page k of a collection
CursorOf(k) == "cursor-" \o ToString(k)

\* Mutant of StartCursorParam: the cursor is never sent.
StartCursorParamDropped(c) == None

\* params = {} ; if cursor: params["start_cursor"] = cursor
StartCursorParam(c) == IF TruthyStr(c) THEN c ELSE None

\* The page the API answers a request with: the first page when the request
\* has no start_cursor, otherwise the page the cursor was handed out for.
PageAt(pages_of_server, start_cursor) ==
    IF start_cursor = None THEN 1
    ELSE CHOOSE k \in 1..Len(pages_of_server) : CursorOf(k) = start_cursor[1]

\* One page of a collection whose pages hold contents[1], contents[2], ...:
\* has_more on all but the last page, with the cursor of the page after it.
\* A fault is "none", "http" (the request for page `at` gets an error
\* status) or "no_cursor" (page `at` says has_more without a next_cursor).
ChainPage(contents, fault, k) ==
    [json |-> contents[k],
     has_more |-> k < Len(contents),
     next_cursor |-> IF k < Len(contents) /\ ~(fault.kind = "no_cursor" /\ fault.at = k)
                     THEN Some(CursorOf(k + 1)) ELSE None,
     http_ok |-> ~(fault.kind = "http" /\ fault.at = k)]

Chain(contents, fault) == [k \in 1..Len(contents) |-> ChainPage(contents, fault, k)]

Faults(n) ==
    {[kind |-> "none", at |-> 0]}
    \cup {[kind |-> "http", at |-> k] : k \in 1..n}
    \cup {[kind |-> "no_cursor", at |-> k] : k \in 1..(n - 1)}

\* "results" arrays of block-children responses
SampleBlockPages ==
    {<<>>,
     <<BlockOf("numbered_list_item", RichTextBlockContent(<<Plain("a")>>, DEFAULT))>>,
     <<[type |-> "divider"],
       BlockOf("paragraph", RichTextBlockContent(<<Plain("Hello")>>, "red"))>>,
     <<SyncedBlockJson>>}

\* "results" arrays of data-source query responses; the last one holds an
\* element without the required fields of BlogPage
SamplePagePages ==
    {<<>>,
     <<BlogPage("My Post", "my-post", Some("Publish"))>>,
     <<BlogPage("Hello, World!", "", Some("Publish")), BlogPage("My Post", "", None)>>,
     <<[object |-> "page"]>>}

\* BlogDataSourceResponse.model_validate: every element must be a BlogPage
validate_pages(json_results) ==
    IF \A i \in 1..Len(json_results) :
          DOMAIN json_results[i] = DOMAIN BlogPage("", "", None)
    THEN [raised |-> None, results |-> json_results]
    ELSE [raised |-> Some("ValidationError"), results |-> <<>>]

\* query_data_source: the request, raise_for_status, then model_validate
query_data_source(http_ok, json_results) ==
    IF ~http_ok
    THEN [raised |-> Some("HTTPError"), results |-> <<>>]
    ELSE validate_pages(json_results)

MaxChain == 3

\* requests one call may send (more than any chain needs)
MaxRequests == MaxChain + 2

FetchInit ==
    /\ fetcher \in {"fetch_all_blocks", "fetch_all_pages"}
    /\ \E n \in 1..MaxChain :
          \E contents \in [1..n -> IF fetcher = "fetch_all_blocks"
                                   THEN SampleBlockPages ELSE SamplePagePages] :
             \E fault \in Faults(n) : server = Chain(contents, fault)
    /\ fetch_pc = "start"
    /\ all_results = <<>>
    /\ cursor = None
    /\ first_response = None
    /\ requests = <<>>
    /\ served = <<>>
    /\ responses = <<>>
    /\ fetch_ret = None

\* a parsed response object, by the fields the fetch reads
Response(parsed, page) ==
    [results |-> parsed.results, has_more |-> page.has_more,
     next_cursor |-> page.next_cursor]

\* Mutant of fetch_all_blocks_result: the first response is returned as received.
fetch_all_blocks_result_unmerged(first, merged) == first

\* first_response.results = all_results ; .has_more = False ; .next_cursor = None
fetch_all_blocks_result(first, merged) ==
    [first EXCEPT !.results = merged, !.has_more = FALSE, !.next_cursor = None]

\* all_results = [] ; cursor = None ; first_response = None
fetch_all_blocks_call ==
    /\ fetcher = "fetch_all_blocks" /\ fetch_pc = "start"
    /\ fetch_pc' = "loop"
    /\ all_results' = <<>>
    /\ cursor' = None
    /\ first_response' = None
    /\ UNCHANGED <<server, fetcher, requests, served, responses, fetch_ret>>
    /\ UNCHANGED <<assemblerVars, formatVars, colorVars, blockVars, parseVars, batchVars, threadVars, convertVars, mainVars>>

\* one iteration of `while True` of fetch_all_blocks
fetch_all_blocks_request ==
    /\ fetcher = "fetch_all_blocks" /\ fetch_pc = "loop"
    /\ Len(requests) < MaxRequests
    /\ LET start_cursor == StartCursorParam(cursor)
           k == PageAt(server, start_cursor)
           parsed == get_block_children(server[k].http_ok, server[k].json)
           response == Response(parsed, server[k])
       IN  /\ requests' = Append(requests, start_cursor)
           /\ served' = Append(served, k)
           /\ IF parsed.raised # None
              THEN /\ fetch_pc' = "raised"
                   /\ UNCHANGED <<all_results, cursor, first_response, responses>>
              ELSE /\ responses' = Append(responses,
                                          [has_more |-> response.has_more,
                                           next_cursor |-> response.next_cursor])
                   /\ first_response' =
                         IF first_response = None THEN Some(response) ELSE first_response
                   /\ all_results' = all_results \o response.results
                   /\ IF ~response.has_more
                      THEN fetch_pc' = "break" /\ cursor' = cursor
                      ELSE fetch_pc' = "loop" /\ cursor' = response.next_cursor
    /\ UNCHANGED <<server, fetcher, fetch_ret>>
    /\ UNCHANGED <<assemblerVars, formatVars, colorVars, blockVars, parseVars, batchVars, threadVars, convertVars, mainVars>>

\* after the loop: first_response is a model object, hence truthy
fetch_all_blocks_return ==
    /\ fetcher = "fetch_all_blocks" /\ fetch_pc = "break"
    /\ fetch_pc' = "returned"
    /\ first_response' = Some(fetch_all_blocks_result(first_response[1], all_results))
    /\ fetch_ret' = Some(fetch_all_blocks_result(first_response[1], all_results))
    /\ UNCHANGED <<server, fetcher, all_results, cursor, requests, served, responses>>
    /\ UNCHANGED <<assemblerVars, formatVars, colorVars, blockVars, parseVars, batchVars, threadVars, convertVars, mainVars>>

\* all_pages = [] ; cursor = None
fetch_all_pages_call ==
    /\ fetcher = "fetch_all_pages" /\ fetch_pc = "start"
    /\ fetch_pc' = "loop"
    /\ all_results' = <<>>
    /\ cursor' = None
    /\ UNCHANGED <<server, fetcher, first_response, requests, served, responses,
                   fetch_ret>>
    /\ UNCHANGED <<assemblerVars, formatVars, colorVars, blockVars, parseVars, batchVars, threadVars, convertVars, mainVars>>

\* one iteration of `while True` of fetch_all_pages
fetch_all_pages_request ==
    /\ fetcher = "fetch_all_pages" /\ fetch_pc = "loop"
    /\ Len(requests) < MaxRequests
    /\ LET start_cursor == StartCursorParam(cursor)
           k == PageAt(server, start_cursor)
           parsed == query_data_source(server[k].http_ok, server[k].json)
           response == Response(parsed, server[k])
       IN  /\ requests' = Append(requests, start_cursor)
           /\ served' = Append(served, k)
           /\ IF parsed.raised # None
              THEN /\ fetch_pc' = "raised"
                   /\ UNCHANGED <<all_results, cursor, responses>>
              ELSE /\ responses' = Append(responses,
                                          [has_more |-> response.has_more,
                                           next_cursor |-> response.next_cursor])
                   /\ all_results' = all_results \o response.results
                   /\ IF ~response.has_more
                      THEN fetch_pc' = "break" /\ cursor' = cursor
                      ELSE fetch_pc' = "loop" /\ cursor' = response.next_cursor
    /\ UNCHANGED <<server, fetcher, first_response, fetch_ret>>
    /\ UNCHANGED <<assemblerVars, formatVars, colorVars, blockVars, parseVars, batchVars, threadVars, convertVars, mainVars>>

\* return all_pages
fetch_all_pages_return ==
    /\ fetcher = "fetch_all_pages" /\ fetch_pc = "break"
    /\ fetch_pc' = "returned"
    /\ fetch_ret' = Some(all_results)
    /\ UNCHANGED <<server, fetcher, all_results, cursor, first_response, requests,
                   served, responses>>
    /\ UNCHANGED <<assemblerVars, formatVars, colorVars, blockVars, parseVars, batchVars, threadVars, convertVars, mainVars>>

InitFetch ==
    /\ FetchInit
    /\ AssemblerIdle /\ FormatIdle /\ ColorIdle /\ BlockIdle /\ ParseIdle /\ BatchIdle /\ ThreadIdle /\ ConvertIdle /\ MainIdle

NextFetch ==
    \/ fetch_all_blocks_call
    \/ fetch_all_blocks_request
    \/ fetch_all_blocks_return
    \/ fetch_all_pages_call
    \/ fetch_all_pages_request
    \/ fetch_all_pages_return

SpecFetch == InitFetch /\ [][NextFetch]_vars

\* A call runs: each of its steps is eventually taken while it stays enabled.
FairSpecFetch == SpecFetch /\ WF_vars(NextFetch)

\* -------------------------------------------------------------------------
\* Claims about the paginated fetches
\* -------------------------------------------------------------------------

\* every page but the last names the page after it
LinkedChain(srv) ==
    \A k \in 1..(Len(srv) - 1) : srv[k].next_cursor = Some(CursorOf(k + 1))

\* the blocks of the given pages of the collection, in the given order
RECURSIVE BlocksOfPages(_, _)
BlocksOfPages(srv, ks) ==
    IF ks = <<>> THEN <<>>
    ELSE model_validate(srv[Head(ks)].json).results \o BlocksOfPages(srv, Tail(ks))

RawA == BlockOf("numbered_list_item", RichTextBlockContent(<<Plain("a")>>, DEFAULT))

RawRedHello == BlockOf("paragraph", RichTextBlockContent(<<Plain("Hello")>>, "red"))

\* C11: when fetch_all_blocks returns, its value is one response whose
\* results are the blocks of the pages the API served, concatenated in
\* request order; for a collection of n linked pages these are the blocks of
\* pages 1..n, each once and in order.  The value has has_more = False and
\* next_cursor = None.
C11_PaginationMerging ==
    (fetcher = "fetch_all_blocks" /\ fetch_pc = "returned") =>
        /\ fetch_ret # None
        /\ fetch_ret[1].results = BlocksOfPages(server, served)
        /\ LinkedChain(server) =>
              fetch_ret[1].results =
                  BlocksOfPages(server, [k \in 1..Len(server) |-> k])
        /\ fetch_ret[1].has_more = FALSE
        /\ fetch_ret[1].next_cursor = None

C11_Witness ==
    /\ fetcher = "fetch_all_blocks"
    /\ fetch_pc = "returned"
    /\ Len(server) = 3
    /\ server[1].json = <<[type |-> "divider"], RawRedHello>>
    /\ server[2].json = <<>>
    /\ server[3].json = <<RawA>>
    /\ fetch_ret = Some([results |-> <<[type |-> "divider"], RawRedHello, RawA>>,
                         has_more |-> FALSE, next_cursor |-> None])

\* what the protocol allows the request and response logs of a call to be
ProtocolObeyed ==
    /\ requests # <<>> => requests[1] = None
    /\ Len(served) = Len(requests)
    /\ Len(responses) \in {Len(requests), Len(requests) - 1}
    /\ Len(responses) < Len(requests) => fetch_pc = "raised"
    /\ \A k \in 1..(Len(requests) - 1) :
          /\ responses[k].has_more
          /\ requests[k + 1] = responses[k].next_cursor
    /\ fetch_pc \in {"break", "returned"} =>
          /\ responses # <<>>
          /\ ~responses[Len(responses)].has_more
    /\ (fetch_pc = "loop" /\ responses # <<>>) => responses[Len(responses)].has_more
    /\ LinkedChain(server) =>
          /\ served = [k \in 1..Len(served) |-> k]
          /\ fetch_pc = "returned" => Len(requests) = Len(server)

\* C20: in fetch_all_blocks and fetch_all_pages the first request carries no
\* start_cursor; request k+1 is sent only after response k said has_more and
\* carries that response's next_cursor; no request follows a response with
\* has_more = False.  On a collection of n linked pages the pages are
\* requested in order, none twice, and the call ends (returning after
\* exactly n requests, or raising on a failed request).
C20_PaginationProtocol ==
    /\ []ProtocolObeyed
    /\ LinkedChain(server) => <>(fetch_pc \in {"returned", "raised"})

C20_Witness ==
    /\ fetcher = "fetch_all_pages"
    /\ fetch_pc = "returned"
    /\ Len(server) = 3
    /\ requests = <<None, Some("cursor-2"), Some("cursor-3")>>
    /\ served = <<1, 2, 3>>
    /\ responses = <<[has_more |-> TRUE, next_cursor |-> Some("cursor-2")],
                     [has_more |-> TRUE, next_cursor |-> Some("cursor-3")],
                     [has_more |-> FALSE, next_cursor |-> None]>>
    /\ Len(fetch_ret[1]) = 3

\* -------------------------------------------------------------------------
\* Concurrent renders (specifications SpecThreads, FairSpecThreads)
\* -------------------------------------------------------------------------

\* self.results of the object caller t's call was made on
ReceiverOf(t) == IF invocations[t].callee = "self" THEN results ELSE other_results

\* Mutant of LocalsOf: numbered_list_counter is one variable for all callers
\* (a module-level counter) instead of a local of the call.
LocalsOfSharedCounter(t) ==
    [lines |-> invocations[t].lines,
     numbered_list_counter |-> invocations["t1"].numbered_list_counter,
     prev_type |-> invocations[t].prev_type]

\* the locals lines, numbered_list_counter, prev_type of caller t's call
LocalsOf(t) ==
    [lines |-> invocations[t].lines,
     numbered_list_counter |-> invocations[t].numbered_list_counter,
     prev_type |-> invocations[t].prev_type]

\* the number argument of the renderer call of one iteration (None: omitted)
NumberPassed(out, b) ==
    IF b.type = "numbered_list_item" THEN Some(out.numbered_list_counter) ELSE None

\* Mutant of NextIndex: the loop does not advance.
NextIndexStuck(i) == i

\* `for block in self.results`: the position after block i
NextIndex(i) == i + 1

\* Two response objects; no call has been made.
ThreadInit ==
    /\ results \in SeqsUpTo(OtherBlocks, MaxBlocks)
    /\ other_results \in SeqsUpTo(OtherBlocks, MaxOther)
    /\ has_more = FALSE
    /\ next_cursor = None
    /\ pc = "idle"
    /\ callee = "self"
    /\ dialect = "markdown"
    /\ idx = 0
    /\ lines = <<>>
    /\ numbered_list_counter = 0
    /\ prev_type = None
    /\ fragments = <<>>
    /\ ret = ""
    /\ first_ret = [o \in Objects |-> [d \in Dialects |-> None]]
    /\ repeat = FALSE
    /\ invocations = [t \in Threads |-> NotCalled]

\* entry of to_markdown in caller t, on obj: the locals are created
thread_to_markdown_call(t, obj) ==
    /\ invocations[t].pc = "idle"
    /\ invocations' =
          [invocations EXCEPT ![t] =
              [pc |-> "loop", callee |-> obj, dialect |-> "markdown", idx |-> 0,
               lines |-> to_markdown_locals.lines,
               numbered_list_counter |-> to_markdown_locals.numbered_list_counter,
               prev_type |-> to_markdown_locals.prev_type, ret |-> "",
               visited |-> <<>>, numbers |-> <<>>, fragments |-> <<>>]]
    /\ UNCHANGED <<assemblerVars, formatVars, colorVars, blockVars, parseVars, batchVars, fetchVars, convertVars, mainVars>>

\* one iteration of the loop of to_markdown in caller t
thread_to_markdown_step(t) ==
    /\ invocations[t].pc = "loop" /\ invocations[t].dialect = "markdown"
    /\ invocations[t].idx < Len(ReceiverOf(t))
    /\ LET out == to_markdown_body(LocalsOf(t), ReceiverOf(t)[invocations[t].idx + 1])
       IN  invocations' =
              [invocations EXCEPT ![t].lines = out.lines,
                                  ![t].numbered_list_counter = out.numbered_list_counter,
                                  ![t].prev_type = out.prev_type,
                                  ![t].idx = NextIndex(invocations[t].idx),
                                  ![t].visited =
                                      Append(invocations[t].visited,
                                             ReceiverOf(t)[invocations[t].idx + 1]),
                                  ![t].numbers =
                                      Append(invocations[t].numbers,
                                             NumberPassed(out, ReceiverOf(t)[invocations[t].idx + 1])),
                                  ![t].fragments = Append(invocations[t].fragments, out.md)]
    /\ UNCHANGED <<assemblerVars, formatVars, colorVars, blockVars, parseVars, batchVars, fetchVars, convertVars, mainVars>>

\* the return of to_markdown in caller t
thread_to_markdown_return(t) ==
    /\ invocations[t].pc = "loop" /\ invocations[t].dialect = "markdown"
    /\ invocations[t].idx = Len(ReceiverOf(t))
    /\ invocations' =
          [invocations EXCEPT ![t].pc = "returned",
                              ![t].ret = to_markdown_result(LocalsOf(t))]
    /\ UNCHANGED <<assemblerVars, formatVars, colorVars, blockVars, parseVars, batchVars, fetchVars, convertVars, mainVars>>

\* entry of to_mdx in caller t, on obj: the locals are created
thread_to_mdx_call(t, obj) ==
    /\ invocations[t].pc = "idle"
    /\ invocations' =
          [invocations EXCEPT ![t] =
              [pc |-> "loop", callee |-> obj, dialect |-> "mdx", idx |-> 0,
               lines |-> to_mdx_locals.lines,
               numbered_list_counter |-> to_mdx_locals.numbered_list_counter,
               prev_type |-> to_mdx_locals.prev_type, ret |-> "",
               visited |-> <<>>, numbers |-> <<>>, fragments |-> <<>>]]
    /\ UNCHANGED <<assemblerVars, formatVars, colorVars, blockVars, parseVars, batchVars, fetchVars, convertVars, mainVars>>

\* one iteration of the loop of to_mdx in caller t
thread_to_mdx_step(t) ==
    /\ invocations[t].pc = "loop" /\ invocations[t].dialect = "mdx"
    /\ invocations[t].idx < Len(ReceiverOf(t))
    /\ LET out == to_mdx_body(LocalsOf(t), ReceiverOf(t)[invocations[t].idx + 1])
       IN  invocations' =
              [invocations EXCEPT ![t].lines = out.lines,
                                  ![t].numbered_list_counter = out.numbered_list_counter,
                                  ![t].prev_type = out.prev_type,
                                  ![t].idx = NextIndex(invocations[t].idx),
                                  ![t].visited =
                                      Append(invocations[t].visited,
                                             ReceiverOf(t)[invocations[t].idx + 1]),
                                  ![t].numbers =
                                      Append(invocations[t].numbers,
                                             NumberPassed(out, ReceiverOf(t)[invocations[t].idx + 1])),
                                  ![t].fragments = Append(invocations[t].fragments, out.md)]
    /\ UNCHANGED <<assemblerVars, formatVars, colorVars, blockVars, parseVars, batchVars, fetchVars, convertVars, mainVars>>

\* the return of to_mdx in caller t
thread_to_mdx_return(t) ==
    /\ invocations[t].pc = "loop" /\ invocations[t].dialect = "mdx"
    /\ invocations[t].idx = Len(ReceiverOf(t))
    /\ invocations' =
          [invocations EXCEPT ![t].pc = "returned",
                              ![t].ret = to_mdx_result(LocalsOf(t))]
    /\ UNCHANGED <<assemblerVars, formatVars, colorVars, blockVars, parseVars, batchVars, fetchVars, convertVars, mainVars>>

InitThreads ==
    /\ ThreadInit
    /\ FormatIdle /\ ColorIdle /\ BlockIdle /\ ParseIdle /\ BatchIdle /\ FetchIdle /\ ConvertIdle /\ MainIdle

NextThreads ==
    \E t \in Threads :
        \/ \E obj \in Objects : thread_to_markdown_call(t, obj)
        \/ thread_to_markdown_step(t)
        \/ thread_to_markdown_return(t)
        \/ \E obj \in Objects : thread_to_mdx_call(t, obj)
        \/ thread_to_mdx_step(t)
        \/ thread_to_mdx_return(t)

SpecThreads == InitThreads /\ [][NextThreads]_vars

\* the string the call of caller t returns when nothing else runs
RunAlone(t) ==
    IF invocations[t].dialect = "markdown"
    THEN to_markdown(ReceiverOf(t))
    ELSE to_mdx(ReceiverOf(t))

\* C12: two render calls running concurrently, on the same or on different
\* response objects and interleaved between any two loop iterations, each
\* return the string the call returns when run alone; while a call is in
\* its loop, its counter, previous type and buffer are those of a run alone
\* over the blocks it has visited.
C12_ConcurrentRendersIndependent ==
    \A t \in Threads :
        /\ invocations[t].pc = "returned" => invocations[t].ret = RunAlone(t)
        /\ invocations[t].pc = "loop" =>
              LET alone == IF invocations[t].dialect = "markdown"
                           THEN to_markdown(SubSeq(ReceiverOf(t), 1, invocations[t].idx))
                           ELSE to_mdx(SubSeq(ReceiverOf(t), 1, invocations[t].idx))
              IN  Concat(invocations[t].lines) = alone

\* both calls are in their loops, on the same object, at different blocks
C12_Witness ==
    /\ results = <<NLI_a, NLI_a, DividerBlock>>
    /\ invocations["t1"].pc = "loop" /\ invocations["t2"].pc = "loop"
    /\ invocations["t1"].callee = "self" /\ invocations["t2"].callee = "self"
    /\ invocations["t1"].dialect = "markdown" /\ invocations["t2"].dialect = "mdx"
    /\ invocations["t1"].idx = 2 /\ invocations["t2"].idx = 1
    /\ invocations["t1"].numbered_list_counter = 2
    /\ invocations["t2"].numbered_list_counter = 1

\* The callers keep running: while some step of some caller is possible, a
\* step is eventually taken.
FairSpecThreads == SpecThreads /\ WF_vars(NextThreads)

\* the loop of caller t has been handed the first idx blocks, each once, in order
VisitedInOrder(t) ==
    /\ invocations[t].idx <= Len(ReceiverOf(t))
    /\ invocations[t].pc # "idle" =>
          invocations[t].visited = SubSeq(ReceiverOf(t), 1, invocations[t].idx)
    /\ invocations[t].pc = "returned" => invocations[t].visited = ReceiverOf(t)

\* C13: every call of to_markdown and of to_mdx returns (it leaves its loop
\* only by returning, and does not stay in it forever), and when it does its
\* loop has visited every block of the sequence exactly once, in source
\* order.
C13_RenderTerminates ==
    /\ [](\A t \in Threads : VisitedInOrder(t))
    /\ [][\A t \in Threads :
             invocations[t].pc = "loop" => invocations'[t].pc \in {"loop", "returned"}]_vars
    /\ \A t \in Threads : <>[](invocations[t].pc \in {"idle", "returned"})

C13_Witness ==
    /\ invocations["t1"].pc = "returned"
    /\ invocations["t1"].dialect = "mdx"
    /\ invocations["t1"].callee = "self"
    /\ results = <<DividerBlock, NLI_a, DividerBlock>>
    /\ invocations["t1"].visited = <<DividerBlock, NLI_a, DividerBlock>>
    /\ invocations["t1"].idx = 3
    /\ invocations["t2"].pc = "idle"

\* -------------------------------------------------------------------------
\* More claims about the block renderers (specification SpecBlock)
\* -------------------------------------------------------------------------

FileBlockTypes == {"image", "video", "audio", "file", "pdf"}

\* the Markdown fragment of a file-like block, with the given URL
MarkdownFileFragment(b, url) ==
    LET f == b[b.type]
    IN  CASE b.type = "image" ->
               "![" \o (IF f.caption = <<>> THEN "image"
                        ELSE _rich_text_to_markdown(f.caption))
               \o "](" \o url \o ")\n"
          [] b.type = "video" -> "[Video](" \o url \o ")\n"
          [] b.type = "audio" -> "[Audio](" \o url \o ")\n"
          [] b.type = "pdf" -> "[PDF](" \o url \o ")\n"
          [] b.type = "file" ->
               "[" \o (IF f.name \in {None, Some("")} THEN "file" ELSE f.name[1])
               \o "](" \o url \o ")\n"

\* the MDX fragment of a file-like block, with the given URL
MdxFileFragment(b, url) ==
    LET f == b[b.type]
        alt == _rich_text_to_markdown(f.caption)
    IN  CASE b.type = "image" ->
               "<Image src=\"" \o url \o "\""
               \o (IF alt = "" THEN "" ELSE " alt=\"" \o alt \o "\"") \o " />\n"
          [] b.type = "video" -> "<Video src=\"" \o url \o "\" />\n"
          [] b.type = "audio" -> "<Audio src=\"" \o url \o "\" />\n"
          [] b.type = "pdf" -> "<PDF src=\"" \o url \o "\" />\n"
          [] b.type = "file" ->
               "<FileDownload href=\"" \o url \o "\" name=\""
               \o (IF f.name \in {None, Some("")} THEN "file" ELSE f.name[1])
               \o "\" />\n"

\* C14: for an image, video, audio, file or pdf block, both renderers return
\* the variant's fragment with the external URL when the file object has
\* one, and the same fragment with an empty URL when it has none (an internal
\* file or a file upload); no input makes them raise.
C14_FileUrlGap ==
    block.type \in FileBlockTypes =>
        LET f == block[block.type]
            url == IF f.external = None THEN "" ELSE f.external[1].url
        IN  /\ md_fragment # None => md_fragment[1] = MarkdownFileFragment(block, url)
            /\ mdx_fragment # None => mdx_fragment[1] = MdxFileFragment(block, url)

C14_Witness ==
    /\ block = BlockOf("image", FileObject("file_upload", None, <<>>, None))
    /\ md_fragment = Some("![image]()\n")
    /\ mdx_fragment = Some("<Image src=\"\" />\n")

\* -------------------------------------------------------------------------
\* The two dialects side by side (specification SpecDialects): one caller
\* runs to_markdown and the other to_mdx on the same response object.
\* -------------------------------------------------------------------------

TableRowBlock == BlockOf("table_row", [cells |-> <<<<Plain("x")>>, <<BoldLink>>>>])

TableLikeTypes == {"table", "table_row", "column_list", "column", "breadcrumb"}

DialectBlocks ==
    {NLI_a,
     NumberedListItemBlock(<<Plain("b")>>, "red"),
     DividerBlock,
     BlockOf("table", [table_width |-> 2]),
     TableRowBlock,
     [type |-> "column_list"],
     [type |-> "column"],
     [type |-> "breadcrumb"]}

DialectInit ==
    /\ results \in SeqsUpTo(DialectBlocks, MaxBlocks)
    /\ other_results = <<>>
    /\ has_more = FALSE
    /\ next_cursor = None
    /\ pc = "idle"
    /\ callee = "self"
    /\ dialect = "markdown"
    /\ idx = 0
    /\ lines = <<>>
    /\ numbered_list_counter = 0
    /\ prev_type = None
    /\ fragments = <<>>
    /\ ret = ""
    /\ first_ret = [o \in Objects |-> [d \in Dialects |-> None]]
    /\ repeat = FALSE
    /\ invocations = [t \in Threads |-> NotCalled]

InitDialects ==
    /\ DialectInit
    /\ FormatIdle /\ ColorIdle /\ BlockIdle /\ ParseIdle /\ BatchIdle /\ FetchIdle /\ ConvertIdle /\ MainIdle

NextDialects ==
    \/ thread_to_markdown_call("t1", "self")
    \/ thread_to_markdown_step("t1")
    \/ thread_to_markdown_return("t1")
    \/ thread_to_mdx_call("t2", "self")
    \/ thread_to_mdx_step("t2")
    \/ thread_to_mdx_return("t2")

SpecDialects == InitDialects /\ [][NextDialects]_vars

\* C15: on every block sequence to_mdx passes the same number for each
\* numbered_list_item block as to_markdown does, and both print it in front
\* of the item; table, column_list, column and breadcrumb blocks render to ""
\* in both dialects and a table_row block to the same pipe-delimited line of
\* its formatted cells.
C15_DialectsAgree ==
    LET md == invocations["t1"]
        mdx == invocations["t2"]
    IN  \A i \in 1..Len(results) :
           (i <= md.idx /\ i <= mdx.idx) =>
              /\ md.numbers[i] = mdx.numbers[i]
              /\ results[i].type = "numbered_list_item" =>
                    /\ md.numbers[i] = Some(RunPosition(results, i))
                    /\ StartsWith(md.fragments[i], ToString(md.numbers[i][1]) \o ". ")
                    /\ StartsWith(mdx.fragments[i], ToString(md.numbers[i][1]) \o ". ")
              /\ results[i].type \in TableLikeTypes =>
                    /\ md.fragments[i] = mdx.fragments[i]
                    /\ results[i].type # "table_row" => md.fragments[i] = ""
                    /\ results[i] = TableRowBlock => md.fragments[i] = "| x | [**a**](u) |\n"

C15_Witness ==
    /\ results = <<NLI_a, TableRowBlock, NumberedListItemBlock(<<Plain("b")>>, "red")>>
    /\ invocations["t1"].pc = "returned"
    /\ invocations["t2"].pc = "returned"
    /\ invocations["t1"].ret = "1. a\n| x | [**a**](u) |\n1. b\n"
    /\ invocations["t2"].ret =
          "1. a\n| x | [**a**](u) |\n1. <Span color=\"red\">b</Span>\n"

\* s with "> " put after each of its newlines
RECURSIVE PrefixAfterNewlines(_)
PrefixAfterNewlines(s) ==
    IF s = "" THEN ""
    ELSE IF SubSeq(s, 1, 1) = "\n"
         THEN "\n> " \o PrefixAfterNewlines(SubSeq(s, 2, Len(s)))
         ELSE SubSeq(s, 1, 1) \o PrefixAfterNewlines(SubSeq(s, 2, Len(s)))

\* C16: a quote block renders in Markdown as its formatted text with "> " in
\* front of every line (at the start and after each newline) and a final
\* newline; in MDX it renders the same way when its color is default, and
\* otherwise as one Quote component carrying the color, around the text as
\* it is, with no "> " added.
C16_QuoteRendering ==
    block.type = "quote" =>
        LET text == _rich_text_to_markdown(block.quote.rich_text)
            prefixed == "> " \o PrefixAfterNewlines(text) \o "\n"
        IN  /\ md_fragment # None => md_fragment[1] = prefixed
            /\ mdx_fragment # None =>
                  IF block.quote.color = DEFAULT
                  THEN mdx_fragment[1] = prefixed
                  ELSE /\ mdx_fragment[1] =
                             "<Quote color=\"" \o block.quote.color \o "\">"
                             \o text \o "</Quote>\n"
                       /\ CountOccurrences("<Quote ", mdx_fragment[1]) = 1
                       /\ CountOccurrences("> ", mdx_fragment[1])
                             = CountOccurrences("> ", text)

C16_Witness ==
    /\ block = BlockOf("quote", RichTextBlockContent(<<Plain("l1\nl2")>>, "red"))
    /\ md_fragment = Some("> l1\n> l2\n")
    /\ mdx_fragment = Some("<Quote color=\"red\">l1\nl2</Quote>\n")

\* the emoji of a callout's icon; "" when there is no icon or it is a file
EmojiOf(icon) ==
    IF icon # None /\ icon[1].type = "emoji" THEN icon[1].emoji ELSE ""

\* C17: a callout renders in MDX as a Callout tag with the icon's emoji and
\* the color as attributes, then the formatted text after two spaces, then
\* the closing tag, each on a line; in Markdown as "> ", the emoji and a
\* space when the icon is an emoji, the formatted text and a newline.  With
\* no icon or a file icon the icon part is empty, and nothing raises.
C17_CalloutRendering ==
    block.type = "callout" =>
        LET text == _rich_text_to_markdown(block.callout.rich_text)
            emoji == EmojiOf(block.callout.icon)
        IN  /\ mdx_fragment # None =>
                  mdx_fragment[1] =
                      "<Callout icon=\"" \o emoji \o "\" color=\""
                      \o block.callout.color \o "\">\n  " \o text \o "\n</Callout>\n"
            /\ md_fragment # None =>
                  md_fragment[1] =
                      "> " \o (IF emoji = "" THEN "" ELSE emoji \o " ") \o text \o "\n"
            /\ (/\ block.callout = CalloutContent(<<Plain("note")>>,
                                                  Some(EmojiIcon("&#128161;")), DEFAULT)
                /\ mdx_fragment # None) =>
                  mdx_fragment[1] =
                      "<Callout icon=\"&#128161;\" color=\"default\">\n  note\n</Callout>\n"

C17_Witness ==
    /\ block = BlockOf("callout",
                       CalloutContent(<<Plain("note")>>, Some(EmojiIcon("&#128161;")),
                                      DEFAULT))
    /\ md_fragment = Some("> &#128161; note\n")
    /\ mdx_fragment =
          Some("<Callout icon=\"&#128161;\" color=\"default\">\n  note\n</Callout>\n")

\* -------------------------------------------------------------------------
\* The counter of the assemblers (specification Spec)
\* -------------------------------------------------------------------------

\* The counter the rule gives after the first n blocks: 0 at the start, one
\* more after a numbered_list_item block, 0 after any other block.
RECURSIVE RuleCounter(_, _)
RuleCounter(blocks, n) ==
    IF n = 0 THEN 0
    ELSE IF blocks[n].type = "numbered_list_item"
         THEN RuleCounter(blocks, n - 1) + 1
         ELSE 0

CounterFollowsRule ==
    pc \in {"loop", "returned"} =>
        /\ numbered_list_counter = RuleCounter(Receiver, idx)
        /\ numbered_list_counter = RunPosition(Receiver, idx + 1) - 1
        /\ numbered_list_counter >= 0
        /\ numbered_list_counter <= idx

\* one loop iteration changes the counter as the rule does
StepFollowsRule ==
    /\ (pc' = "loop" /\ idx' = 0) => numbered_list_counter' = 0
    /\ (pc = "loop" /\ pc' = "loop" /\ idx' = idx + 1) =>
          numbered_list_counter' =
              IF Receiver[idx'].type = "numbered_list_item"
              THEN numbered_list_counter + 1
              ELSE 0

\* C18: at every point of the loops of to_markdown and to_mdx the counter is
\* what the rule gives (0 at the start, the length of the current run after a
\* numbered_list_item block, 0 after any other block), every iteration
\* changes it as a reset on every other block would, and it is never
\* negative nor larger than the number of blocks visited.
C18_CounterState == []CounterFollowsRule /\ [][StepFollowsRule]_vars

\* after the divider the code's reset has fired, after the paragraph it has not
C18_Witness ==
    /\ pc = "loop"
    /\ dialect = "mdx"
    /\ callee = "self"
    /\ results = <<NLI_a, DividerBlock, RedHello>>
    /\ idx = 3
    /\ prev_type = Some("paragraph")
    /\ numbered_list_counter = 0

\* -------------------------------------------------------------------------
\* What the formatter ignores (specification SpecFormat)
\* -------------------------------------------------------------------------

\* the two span lists differ at most in underline flags and span colors
SameButUnderlineAndColor(l1, l2) ==
    /\ Len(l1) = Len(l2)
    /\ \A i \in 1..Len(l1) :
          /\ l1[i].plain_text = l2[i].plain_text
          /\ l1[i].href = l2[i].href
          /\ l1[i].annotations.bold = l2[i].annotations.bold
          /\ l1[i].annotations.italic = l2[i].annotations.italic
          /\ l1[i].annotations.strikethrough = l2[i].annotations.strikethrough
          /\ l1[i].annotations.code = l2[i].annotations.code

\* C19: the string _rich_text_to_markdown returns for a span list is the
\* string it returns for every list that differs from it only in underline
\* flags and span colors, and it is the concatenation, in order and without
\* separator, of the strings returned for its spans taken one by one.
C19_UnderlineAndColorIgnored ==
    formatted # None =>
        /\ \A other \in FormatInputs :
              SameButUnderlineAndColor(other, rich_text_list) =>
                  _rich_text_to_markdown(other) = formatted[1]
        /\ formatted[1] =
              Concat([i \in 1..Len(rich_text_list) |->
                         _rich_text_to_markdown(<<rich_text_list[i]>>)])

C19_Witness ==
    /\ rich_text_list = <<UnderlinedRedX, BoldLink, UnderlinedRedX>>
    /\ formatted = Some("x[**a**](u)x")

\* -------------------------------------------------------------------------
\* The color policy of the MDX renderer (specification SpecBlock)
\* -------------------------------------------------------------------------

\* the block variants whose formatted text goes through _wrap_with_color
ColorWrappedTypes ==
    {"paragraph", "heading_1", "heading_2", "heading_3", "bulleted_list_item",
     "numbered_list_item", "to_do"}

\* the colored-span construct around text
ColoredSpan(color, text) == "<Span color=\"" \o color \o "\">" \o text \o "</Span>"

\* block b with its rich text replaced by one unannotated span reading text
WithText(b, text) == [b EXCEPT ![b.type].rich_text = <<Plain(text)>>]

\* the Markdown fragment of the block with its formatted text wrapped in the
\* colored span: the Markdown fragment changed by that wrapping only
MarkdownOfWrapped(b, ind, num) ==
    LET content == b[b.type]
    IN  _block_to_markdown(
            WithText(b, ColoredSpan(content.color,
                                    _rich_text_to_markdown(content.rich_text))),
            ind, num)

\* C21 as stated: for a paragraph, heading, list item, to-do or
\* table-of-contents block, the MDX fragment equals the Markdown fragment
\* when the color is the default, and otherwise is the Markdown fragment with
\* the formatted text wrapped in one colored span (for a table of contents,
\* which has no text, the span is around nothing).
C21_ColorPolicyAsStated ==
    (md_fragment # None /\ mdx_fragment # None) =>
        /\ block.type \in ColorWrappedTypes =>
              IF block[block.type].color = DEFAULT
              THEN mdx_fragment[1] = md_fragment[1]
              ELSE mdx_fragment[1] = MarkdownOfWrapped(block, indent, number)
        /\ block.type = "table_of_contents" =>
              IF block.table_of_contents.color = DEFAULT
              THEN mdx_fragment[1] = md_fragment[1]
              ELSE CountOccurrences(ColoredSpan(block.table_of_contents.color, ""),
                                    mdx_fragment[1]) = 1

\* C21 (amended): for a paragraph, heading, list item or to-do block, the MDX
\* fragment equals the Markdown fragment when the color is the default or
\* when the block is a paragraph whose formatted text is empty, and otherwise
\* is the Markdown fragment with the formatted text wrapped in one colored
\* span carrying the color name.  A table of contents is "[TOC]\n" in
\* Markdown and a TableOfContents tag in MDX, which carries the color as an
\* attribute when it is not the default.
C21_ColorPolicy ==
    (md_fragment # None /\ mdx_fragment # None) =>
        /\ block.type \in ColorWrappedTypes =>
              LET content == block[block.type]
                  text == _rich_text_to_markdown(content.rich_text)
              IN  IF \/ content.color = DEFAULT
                     \/ (block.type = "paragraph" /\ text = "")
                  THEN mdx_fragment[1] = md_fragment[1]
                  ELSE /\ mdx_fragment[1] = MarkdownOfWrapped(block, indent, number)
                       /\ mdx_fragment[1] # md_fragment[1]
        /\ block.type = "table_of_contents" =>
              /\ md_fragment[1] = "[TOC]\n"
              /\ mdx_fragment[1] =
                    IF block.table_of_contents.color = DEFAULT
                    THEN "<TableOfContents />\n"
                    ELSE "<TableOfContents color=\""
                           \o block.table_of_contents.color \o "\" />\n"

C21_Witness ==
    /\ block = BlockOf("to_do", ToDoContent(<<Plain("Hello")>>, "red", TRUE))
    /\ indent = 1
    /\ md_fragment = Some("  - [x] Hello\n")
    /\ mdx_fragment = Some("  - [x] <Span color=\"red\">Hello</Span>\n")

\* -------------------------------------------------------------------------
\* One call of convert_page_to_mdx, statement by statement
\* (tasks/mdx_converter.py; specification SpecConvert)
\* -------------------------------------------------------------------------

\* what fetch_all_blocks(page_id) does: returns blocks, or raises the HTTP
\* error of a request or the validation error of a response
FetchOutcomes ==
    {[raised |-> None, blocks |-> b] : b \in {<<>>, <<NLI_a, NLI_b>>}}
    \cup {[raised |-> Some(e), blocks |-> <<>>] : e \in {"HTTPError", "ValidationError"}}

\* what the output directory holds when the call is made: nothing, or
\* already a file of the page's name
DirectoriesBefore(p) == {<<>>, (Filename(p) :> "old content\n")}

\* Mutant of AfterTry: the exception is swallowed and the body goes on.
AfterTryIgnored(raised, next) == next

\* where control goes after a statement of the try body: to the handler when
\* the statement raised, to the next statement otherwise
AfterTry(raised, next) == IF raised # None THEN "except" ELSE next

ConvertInit ==
    /\ conv_page \in SamplePages
    /\ conv_pc = "start"
    /\ conv_blocks = None
    /\ conv_content = None
    /\ conv_error = None
    /\ conv_dir \in DirectoriesBefore(conv_page)
    /\ conv_dir_before = conv_dir
    /\ conv_writes = <<>>
    /\ conv_ret = None

\* blocks_response = fetch_all_blocks(page_id)
convert_fetch ==
    /\ conv_pc = "start"
    /\ \E outcome \in FetchOutcomes :
          /\ conv_pc' = AfterTry(outcome.raised, "render")
          /\ conv_error' = outcome.raised
          /\ conv_blocks' = Some(outcome.blocks)
    /\ UNCHANGED <<conv_page, conv_content, conv_dir, conv_dir_before, conv_writes,
                   conv_ret>>
    /\ UNCHANGED <<assemblerVars, formatVars, colorVars, blockVars, parseVars, batchVars, fetchVars, threadVars, mainVars>>

\* content = blocks_response.to_mdx()
convert_render ==
    /\ conv_pc = "render"
    /\ conv_content' = Some(to_mdx(conv_blocks[1]))
    /\ conv_pc' = AfterTry(None, "write")
    /\ UNCHANGED <<conv_page, conv_blocks, conv_error, conv_dir, conv_dir_before,
                   conv_writes, conv_ret>>
    /\ UNCHANGED <<assemblerVars, formatVars, colorVars, blockVars, parseVars, batchVars, fetchVars, threadVars, mainVars>>

\* filename, file_path, frontmatter, then
\* file_path.write_text(frontmatter + content, encoding="utf-8").  A write
\* that raises OSError leaves the directory as it was (the file could not be
\* opened) or the file empty (it was opened, which truncates it).
convert_write ==
    /\ conv_pc = "write"
    /\ LET filename == Filename(conv_page)
           data == Frontmatter(conv_page) \o conv_content[1]
       IN  /\ conv_writes' = Append(conv_writes, [name |-> filename, data |-> data])
           /\ \E raised \in {None, Some("OSError")} :
                 /\ conv_pc' = AfterTry(raised, "written")
                 /\ conv_error' = raised
                 /\ IF raised = None
                    THEN conv_dir' = (filename :> data) @@ conv_dir
                    ELSE conv_dir' \in {conv_dir, (filename :> "") @@ conv_dir}
    /\ UNCHANGED <<conv_page, conv_blocks, conv_content, conv_dir_before, conv_ret>>
    /\ UNCHANGED <<assemblerVars, formatVars, colorVars, blockVars, parseVars, batchVars, fetchVars, threadVars, mainVars>>

\* return str(file_path)
convert_return ==
    /\ conv_pc = "written"
    /\ conv_ret' = Some(FilePath(OutputDir, Filename(conv_page)))
    /\ conv_pc' = "returned"
    /\ UNCHANGED <<conv_page, conv_blocks, conv_content, conv_error, conv_dir,
                   conv_dir_before, conv_writes>>
    /\ UNCHANGED <<assemblerVars, formatVars, colorVars, blockVars, parseVars, batchVars, fetchVars, threadVars, mainVars>>

\* except Exception as e: print(...); return None
convert_except ==
    /\ conv_pc = "except"
    /\ conv_ret' = None
    /\ conv_pc' = "returned"
    /\ UNCHANGED <<conv_page, conv_blocks, conv_content, conv_error, conv_dir,
                   conv_dir_before, conv_writes>>
    /\ UNCHANGED <<assemblerVars, formatVars, colorVars, blockVars, parseVars, batchVars, fetchVars, threadVars, mainVars>>

InitConvert ==
    /\ ConvertInit
    /\ AssemblerIdle /\ FormatIdle /\ ColorIdle /\ BlockIdle /\ ParseIdle /\ BatchIdle /\ FetchIdle /\ ThreadIdle /\ MainIdle

NextConvert ==
    \/ convert_fetch
    \/ convert_render
    \/ convert_write
    \/ convert_return
    \/ convert_except

SpecConvert == InitConvert /\ [][NextConvert]_vars

\* the call has returned after an error while fetching or parsing the blocks
FetchFailed ==
    conv_pc = "returned" /\ conv_error \in {Some("HTTPError"), Some("ValidationError")}

\* the state of a call that returned: a path exactly when nothing was caught,
\* and then the directory is the one before plus the page's file, written
\* once with the frontmatter followed by the rendered content; after a fetch
\* or parse error the directory is the one before and nothing was written
ReturnedRight ==
    conv_pc = "returned" =>
        /\ conv_ret # None <=> conv_error = None
        /\ conv_ret # None =>
              /\ conv_ret = Some(OutputDir \o "/" \o Filename(conv_page))
              /\ conv_writes = <<[name |-> Filename(conv_page),
                                  data |-> Frontmatter(conv_page)
                                             \o to_mdx(conv_blocks[1])]>>
              /\ conv_dir = (conv_writes[1].name :> conv_writes[1].data) @@ conv_dir_before
        /\ FetchFailed => conv_dir = conv_dir_before /\ conv_writes = <<>>

\* a step that changes the directory or calls write_text: the content has
\* been rendered whole, and it is the only write of the call
WriteAfterRender ==
    (conv_dir' # conv_dir \/ conv_writes' # conv_writes) =>
        /\ conv_content # None /\ conv_content[1] = to_mdx(conv_blocks[1])
        /\ conv_writes = <<>> /\ Len(conv_writes') = 1

\* C22: convert_page_to_mdx returns the path of the written file on success
\* and None on error; an error while fetching, parsing or rendering leaves
\* the output directory unchanged; the file is written only after the whole
\* content is rendered, in one write of the frontmatter followed by the
\* content.
C22_ConvertPage == []ReturnedRight /\ [][WriteAfterRender]_vars

C22_Witness ==
    /\ FetchFailed
    /\ conv_page = BlogPage("My Post", "my-post", Some("Publish"))
    /\ conv_dir_before = ("my-post.mdx" :> "old content\n")
    /\ conv_dir = conv_dir_before
    /\ conv_ret = None

\* -------------------------------------------------------------------------
\* One run of main() (main.py; specification SpecMain).  main calls
\* fetch_all_pages through fetch_datasource_pages and then
\* convert_pages_to_mdx; their steps are the actions of the sections above.
\* -------------------------------------------------------------------------

\* "results" arrays of the data source's query responses
MainPagePages ==
    {<<BlogPage("My Post", "my-post", Some("Publish")),
       BlogPage("Draft One", "draft-one", Some("Draft"))>>,
     <<BlogPage("Hello, World!", "", Some("Publish"))>>,
     <<BlogPage("My Post", "", None), BlogPage("Low", "low", Some("publish"))>>}

MaxMainChain == 2

\* Mutant of IsPublished: any page that has a status counts.
IsPublishedAnyStatus(p) == p.status # None

\* p.get_status() == "Publish"
IsPublished(p) == p.status = Some("Publish")

\* [p for p in all_pages if p.get_status() == "Publish"]
Published(ps) == SelectSeq(ps, LAMBDA p : IsPublished(p))

\* set_github_output(name, value): one more line name=value
set_github_output(outputs, name, value) ==
    Append(outputs, [name |-> name, value |-> value])

MainInit ==
    /\ data_source_id \in {None, Some(""), Some("ds-1")}
    /\ main_pc = "start"
    /\ github_output = <<>>
    /\ uncaught = None
    /\ exit_status = None
    /\ fetcher = "fetch_all_pages"
    /\ \E n \in 1..MaxMainChain :
          \E contents \in [1..n -> MainPagePages] :
             \E fault \in Faults(n) : server = Chain(contents, fault)
    /\ fetch_pc = "idle"
    /\ all_results = <<>>
    /\ cursor = None
    /\ first_response = None
    /\ requests = <<>>
    /\ served = <<>>
    /\ responses = <<>>
    /\ fetch_ret = None
    /\ pages = <<>>
    /\ batch_pc = "idle"
    /\ page_i = 0
    /\ generated_files = <<>>
    /\ files = <<>>
    /\ attempts = <<>>

\* data_source_id = os.environ.get(...); if not data_source_id: sys.exit(1);
\* otherwise the call fetch_datasource_pages(data_source_id) is made
main_start ==
    /\ main_pc = "start"
    /\ IF ~TruthyStr(data_source_id)
       THEN /\ main_pc' = "exited"
            /\ exit_status' = Some(1)
            /\ UNCHANGED fetch_pc
       ELSE /\ main_pc' = "fetch"
            /\ fetch_pc' = "start"
            /\ UNCHANGED exit_status
    /\ UNCHANGED <<data_source_id, github_output, uncaught>>
    /\ UNCHANGED <<server, fetcher, all_results, cursor, first_response, requests,
                   served, responses, fetch_ret>>
    /\ UNCHANGED <<assemblerVars, formatVars, colorVars, blockVars, parseVars, batchVars, threadVars, convertVars>>

\* the rest of the try: all_pages is what the fetch returned and pages its
\* published ones, then the call convert_pages_to_mdx(pages, output_dir) is
\* made; except Exception: sys.exit(1)
main_filter ==
    /\ main_pc = "fetch"
    /\ fetch_pc \in {"returned", "raised"}
    /\ IF fetch_pc = "raised"
       THEN /\ main_pc' = "exited"
            /\ exit_status' = Some(1)
            /\ UNCHANGED <<pages, batch_pc>>
       ELSE /\ main_pc' = "convert"
            /\ pages' = Published(fetch_ret[1])
            /\ batch_pc' = "start"
            /\ UNCHANGED exit_status
    /\ UNCHANGED <<data_source_id, github_output, uncaught>>
    /\ UNCHANGED <<page_i, generated_files, files, attempts>>
    /\ UNCHANGED <<assemblerVars, formatVars, colorVars, blockVars, parseVars, fetchVars, threadVars, convertVars>>

\* an exception of convert_pages_to_mdx leaves main: the interpreter prints
\* the traceback and exits with status 1
main_convert_raised ==
    /\ main_pc = "convert"
    /\ batch_pc = "raised"
    /\ main_pc' = "exited"
    /\ uncaught' = Some("OSError")
    /\ exit_status' = Some(1)
    /\ UNCHANGED <<data_source_id, github_output>>
    /\ UNCHANGED <<assemblerVars, formatVars, colorVars, blockVars, parseVars, batchVars, fetchVars, threadVars, convertVars>>

\* set_github_output("files", json.dumps(generated_files)); opening the
\* output file may raise
main_set_files ==
    /\ main_pc = "convert"
    /\ batch_pc = "done"
    /\ \E raised \in {None, Some("OSError")} :
          IF raised = None
          THEN /\ github_output' =
                     set_github_output(github_output, "files", JsonDumps(generated_files))
               /\ main_pc' = "file_count"
               /\ UNCHANGED <<uncaught, exit_status>>
          ELSE /\ main_pc' = "exited"
               /\ uncaught' = raised
               /\ exit_status' = Some(1)
               /\ UNCHANGED github_output
    /\ UNCHANGED data_source_id
    /\ UNCHANGED <<assemblerVars, formatVars, colorVars, blockVars, parseVars, batchVars, fetchVars, threadVars, convertVars>>

\* set_github_output("file_count", str(len(generated_files)))
main_set_file_count ==
    /\ main_pc = "file_count"
    /\ \E raised \in {None, Some("OSError")} :
          IF raised = None
          THEN /\ github_output' =
                     set_github_output(github_output, "file_count",
                                       ToString(Len(generated_files)))
               /\ main_pc' = "summary"
               /\ UNCHANGED <<uncaught, exit_status>>
          ELSE /\ main_pc' = "exited"
               /\ uncaught' = raised
               /\ exit_status' = Some(1)
               /\ UNCHANGED github_output
    /\ UNCHANGED data_source_id
    /\ UNCHANGED <<assemblerVars, formatVars, colorVars, blockVars, parseVars, batchVars, fetchVars, threadVars, convertVars>>

\* the summary is printed and main returns
main_summary ==
    /\ main_pc = "summary"
    /\ main_pc' = "exited"
    /\ exit_status' = Some(0)
    /\ UNCHANGED <<data_source_id, github_output, uncaught>>
    /\ UNCHANGED <<assemblerVars, formatVars, colorVars, blockVars, parseVars, batchVars, fetchVars, threadVars, convertVars>>

InitMain ==
    /\ MainInit
    /\ AssemblerIdle /\ FormatIdle /\ ColorIdle /\ BlockIdle /\ ParseIdle /\ ThreadIdle /\ ConvertIdle

NextMain ==
    \/ main_start
    \/ fetch_all_pages_call
    \/ fetch_all_pages_request
    \/ fetch_all_pages_return
    \/ main_filter
    \/ convert_pages_to_mdx_start
    \/ convert_pages_to_mdx_step
    \/ convert_pages_to_mdx_return
    \/ main_convert_raised
    \/ main_set_files
    \/ main_set_file_count
    \/ main_summary

SpecMain == InitMain /\ [][NextMain]_vars

\* every page the data source holds, in the order it serves them
RECURSIVE AllPagesOf(_, _)
AllPagesOf(srv, n) ==
    IF n = 0 THEN <<>> ELSE AllPagesOf(srv, n - 1) \o srv[n].json

\* the pages whose status is exactly "Publish"
RECURSIVE ExactlyPublish(_)
ExactlyPublish(ps) ==
    IF ps = <<>> THEN <<>>
    ELSE (IF Head(ps).status = <<"Publish">> THEN <<Head(ps)>> ELSE <<>>)
           \o ExactlyPublish(Tail(ps))

\* the two outputs of a run that converted generated_files
FilesOutput == [name |-> "files", value |-> JsonDumps(generated_files)]

FileCountOutput == [name |-> "file_count", value |-> ToString(Len(generated_files))]

\* nothing is converted or written before the fetch has returned every page
\* of the data source
NothingBeforeFetch ==
    (attempts # <<>> \/ files # <<>> \/ batch_pc # "idle" \/ pages # <<>>) =>
        /\ fetch_pc = "returned"
        /\ fetch_ret = Some(AllPagesOf(server, Len(server)))

\* what conversion is handed: the fetched pages whose status is exactly
\* "Publish", in order, and only they are attempted
OnlyPublishConverted ==
    batch_pc # "idle" =>
        /\ pages = ExactlyPublish(fetch_ret[1])
        /\ \A i \in 1..Len(attempts) :
              attempts[i].path = FilePath(OutputDir, Filename(pages[i]))

\* the outputs are set in order, each once, after all conversions
OutputsInOrder ==
    /\ github_output \in {<<>>, <<FilesOutput>>, <<FilesOutput, FileCountOutput>>}
    /\ github_output # <<>> => batch_pc = "done" /\ Len(attempts) = Len(pages)

\* an exit because the id is missing or the fetch raised: status 1, no file,
\* no output
FailedEarly ==
    /\ exit_status = Some(1)
    /\ files = <<>> /\ attempts = <<>>
    /\ github_output = <<>>

\* C23 as stated: nothing is converted or written before the fetch returned
\* all pages; only pages whose status is exactly "Publish" are converted; a
\* run with BLOG_DATASOURCE_ID unset, or whose fetch raises, exits with
\* status 1 without a file or an output; every other run sets files and then
\* file_count once, after all conversions, file_count being the length of
\* the files list.
C23_RunOrderingAsStated ==
    /\ NothingBeforeFetch
    /\ OnlyPublishConverted
    /\ OutputsInOrder
    /\ main_pc = "exited" =>
          IF data_source_id = None \/ fetch_pc = "raised"
          THEN FailedEarly
          ELSE github_output = <<FilesOutput, FileCountOutput>>

\* C23 (amended): as stated, except that the run also exits early, with
\* status 1 and no file or output, when BLOG_DATASOURCE_ID is set but empty,
\* and that a run whose fetch returned sets both outputs (and exits with
\* status 0) only if no exception leaves main: when the output directory
\* cannot be created, or an output cannot be written, the run exits with
\* status 1 with no output, or with the files output alone.
C23_RunOrdering ==
    /\ NothingBeforeFetch
    /\ OnlyPublishConverted
    /\ OutputsInOrder
    /\ main_pc = "exited" =>
          IF ~TruthyStr(data_source_id) \/ fetch_pc = "raised"
          THEN FailedEarly /\ uncaught = None
          ELSE IF uncaught = None
          THEN /\ github_output = <<FilesOutput, FileCountOutput>>
               /\ exit_status = Some(0)
          ELSE /\ exit_status = Some(1)
               /\ Len(github_output) <= 1
               /\ batch_pc = "raised" => github_output = <<>> /\ files = <<>>

C23_Witness ==
    /\ main_pc = "exited"
    /\ exit_status = Some(0)
    /\ Len(fetch_ret[1]) = 4
    /\ Len(pages) = 1
    /\ Len(requests) = 2
    /\ github_output = <<[name |-> "files", value |-> "[\"content/my-post.mdx\"]"],
                         [name |-> "file_count", value |-> "1"]>>

\* -------------------------------------------------------------------------
\* Documents of every block variant (specification SpecDocuments): the
\* assembler runs of Spec on response objects that hold one block of any of
\* the sample blocks, or a few blocks whose fragments differ in shape.
\* -------------------------------------------------------------------------

\* blocks with an empty fragment, a one-line fragment and fragments of
\* several lines
DocBlocks ==
    {ParagraphBlock(<<>>, DEFAULT),
     NumberedListItemBlock(<<Plain("a")>>, DEFAULT),
     BlockOf("quote", RichTextBlockContent(<<Plain("l1\nl2")>>, "red")),
     BlockOf("code", CodeContent(<<Plain("Hello")>>, "python")),
     BlockOf("table_row", [cells |-> <<<<Plain("Hello")>>, <<BoldLink, Plain(" b")>>>>]),
     BlockOf("callout", CalloutContent(<<Plain("note")>>, None, DEFAULT)),
     DividerBlock,
     UnsupportedBlock}

MaxDocBlocks == 2

DocumentsInit ==
    /\ results \in SeqsUpTo(DocBlocks, MaxDocBlocks) \cup {<<b>> : b \in AllBlocks}
    /\ other_results = <<>>
    /\ has_more = FALSE
    /\ next_cursor = None
    /\ pc = "idle"
    /\ callee = "self"
    /\ dialect = "markdown"
    /\ idx = 0
    /\ lines = <<>>
    /\ numbered_list_counter = 0
    /\ prev_type = None
    /\ fragments = <<>>
    /\ ret = ""
    /\ first_ret = [o \in Objects |-> [d \in Dialects |-> None]]
    /\ repeat = FALSE

InitDocuments ==
    /\ DocumentsInit
    /\ FormatIdle /\ ColorIdle /\ BlockIdle /\ ParseIdle /\ BatchIdle /\ FetchIdle /\ ThreadIdle /\ ConvertIdle /\ MainIdle

NextDocuments ==
    \/ to_markdown_call("self")
    \/ to_markdown_step
    \/ to_markdown_return
    \/ to_mdx_call("self")
    \/ to_mdx_step
    \/ to_mdx_return

SpecDocuments == InitDocuments /\ [][NextDocuments]_vars

EndsWithNewline(s) == s # "" /\ SubSeq(s, Len(s), Len(s)) = "\n"

\* each non-empty fragment ends with a newline and starts where a line starts
OwnLines(frags) ==
    \A i \in 1..Len(frags) :
        frags[i] # "" =>
            /\ EndsWithNewline(frags[i])
            /\ LET before == Concat(SubSeq(frags, 1, i - 1))
               IN  before = "" \/ EndsWithNewline(before)

\* C24: every non-empty fragment a block renderer returns, for any block
\* variant and in either dialect, ends with a newline; so every non-empty
\* document to_markdown or to_mdx returns ends with a newline, and in it the
\* fragment of a block starts on a line of its own.
C24_FragmentsEndWithNewline ==
    /\ OwnLines(fragments)
    /\ pc = "returned" =>
          /\ ret = Concat(fragments)
          /\ ret # "" => EndsWithNewline(ret)

C24_Witness ==
    /\ pc = "returned"
    /\ dialect = "mdx"
    /\ results = <<BlockOf("quote", RichTextBlockContent(<<Plain("l1\nl2")>>, "red")),
                   UnsupportedBlock>>
    /\ fragments = <<"<Quote color=\"red\">l1\nl2</Quote>\n", "">>
    /\ ret = "<Quote color=\"red\">l1\nl2</Quote>\n"

\* -------------------------------------------------------------------------
\* File names of a batch (specification SpecNaming): convert_pages_to_mdx on
\* pages whose names collide
\* -------------------------------------------------------------------------

\* the sample pages and one whose slug differs from its sanitized title
NamingPages == SamplePages \cup {BlogPage("Other Title", "my-post", Some("Publish"))}

MaxNamed == 2

NamingInit ==
    /\ pages \in SeqsUpTo(NamingPages, MaxNamed)
    /\ batch_pc = "start"
    /\ page_i = 0
    /\ generated_files = <<>>
    /\ files = <<>>
    /\ attempts = <<>>

InitNaming ==
    /\ NamingInit
    /\ AssemblerIdle /\ FormatIdle /\ ColorIdle /\ BlockIdle /\ ParseIdle /\ FetchIdle /\ ThreadIdle /\ ConvertIdle /\ MainIdle

SpecNaming == InitNaming /\ [][NextBatch]_vars

\* the stem the naming rule gives a page
Stem(p) == IF p.slug # "" THEN p.slug ELSE sanitize_filename(p.title)

\* the attempts that succeeded and wrote the file called name
SucceededAs(name) ==
    {i \in 1..Len(attempts) : attempts[i].succeeded /\ attempts[i].written[1].name = name}

Max(S) == CHOOSE m \in S : \A n \in S : n <= m

====
